---- MODULE Spec2Model ----
(***************************************************************************)
(* Council-meetings ingestion: the eScribe agenda parser, the topic        *)
(* classifier (remote strategy with keyword fallback), the upsert          *)
(* orchestrator over the relational store, and the now/next estimator.     *)
(*                                                                         *)
(* Strings are sequences of one-character strings, so that splitting,      *)
(* trimming, prefix and substring tests are computed as the code does.     *)
(***************************************************************************)
EXTENDS Integers, Sequences, FiniteSets, TLC

\* ------------------------------------------------------------------------
\* String primitives (Python str methods used by the code)
\* ------------------------------------------------------------------------

UpperChars ==
  <<"A","B","C","D","E","F","G","H","I","J","K","L","M",
    "N","O","P","Q","R","S","T","U","V","W","X","Y","Z">>

LowerChars ==
  <<"a","b","c","d","e","f","g","h","i","j","k","l","m",
    "n","o","p","q","r","s","t","u","v","w","x","y","z">>

\* str.lower() on one character
LowerChar(c) ==
  IF \E i \in 1..Len(UpperChars) : UpperChars[i] = c
  THEN LowerChars[CHOOSE i \in 1..Len(UpperChars) : UpperChars[i] = c]
  ELSE c

\* str.upper() on one character
UpperChar(c) ==
  IF \E i \in 1..Len(LowerChars) : LowerChars[i] = c
  THEN UpperChars[CHOOSE i \in 1..Len(LowerChars) : LowerChars[i] = c]
  ELSE c

Lower(s) == [i \in 1..Len(s) |-> LowerChar(s[i])]

Upper(s) == [i \in 1..Len(s) |-> UpperChar(s[i])]

\* None / SQL NULL, one value per type of the field that holds it: a name or
\* identifier, a text, a number or timestamp, a row or object
NULL == "NULL"

NullText == <<"NULL">>

NullInt == 0 - 1

NullRow == [null |-> TRUE]

IsSpace(c) == c \in {" ", "\n", "\t", "\r"}

MinOf(S) == CHOOSE x \in S : \A y \in S : x <= y

MaxOf(S) == CHOOSE x \in S : \A y \in S : y <= x

\* s[:n]
Take(s, n) == SubSeq(s, 1, IF n < Len(s) THEN n ELSE Len(s))

\* s[n:]
Drop(s, n) == SubSeq(s, n + 1, Len(s))

\* str.strip()
Strip(s) ==
  LET keep == {i \in 1..Len(s) : ~IsSpace(s[i])}
  IN  IF keep = {} THEN <<>> ELSE SubSeq(s, MinOf(keep), MaxOf(keep))

\* str.rstrip(ch) for a single character ch
RStripChar(s, ch) ==
  LET keep == {i \in 1..Len(s) : s[i] # ch}
  IN  IF keep = {} THEN <<>> ELSE SubSeq(s, 1, MaxOf(keep))

\* str.split(sep) for a single character sep
RECURSIVE Split(_, _)
Split(s, sep) ==
  LET at == {i \in 1..Len(s) : s[i] = sep}
  IN  IF at = {} THEN <<s>>
      ELSE <<SubSeq(s, 1, MinOf(at) - 1)>> \o Split(Drop(s, MinOf(at)), sep)

\* str.startswith(p)
StartsWith(s, p) == Len(p) <= Len(s) /\ SubSeq(s, 1, Len(p)) = p

\* "sub in s"
Contains(s, sub) ==
  \E i \in 0..(Len(s) - Len(sub)) : SubSeq(s, i + 1, i + Len(sub)) = sub

\* str.replace(a, b) for single characters a, b
ReplaceChar(s, a, b) == [i \in 1..Len(s) |-> IF s[i] = a THEN b ELSE s[i]]

\* sep.join(parts)
RECURSIVE Join(_, _)
Join(parts, sep) ==
  IF parts = <<>> THEN <<>>
  ELSE IF Len(parts) = 1 THEN parts[1]
  ELSE parts[1] \o sep \o Join(Tail(parts), sep)

\* str.replace(sub, "") for a non-empty sub
RECURSIVE RemoveAll(_, _)
RemoveAll(s, sub) ==
  IF Len(s) < Len(sub) THEN s
  ELSE IF StartsWith(s, sub) THEN RemoveAll(Drop(s, Len(sub)), sub)
  ELSE <<Head(s)>> \o RemoveAll(Tail(s), sub)

\* the elements of a sequence
Range(s) == {s[i] : i \in 1..Len(s)}

\* a list holds no element twice
NoDuplicates(s) == \A i, j \in 1..Len(s) : s[i] = s[j] => i = j

\* sequences over S of length at most n
SeqsUpTo(S, n) == UNION {[1..k -> S] : k \in 0..n}

\* ------------------------------------------------------------------------
\* services/summarization.py
\* ------------------------------------------------------------------------

VALID_TAGS ==
  << <<"b","u","d","g","e","t">>,
     <<"t","a","x","e","s">>,
     <<"z","o","n","i","n","g">>,
     <<"h","o","u","s","i","n","g">>,
     <<"h","o","m","e","l","e","s","s","n","e","s","s">>,
     <<"t","r","a","n","s","i","t">>,
     <<"r","o","a","d","s">>,
     <<"s","a","f","e","t","y">>,
     <<"e","n","v","i","r","o","n","m","e","n","t">>,
     <<"p","a","r","k","s">>,
     <<"w","a","t","e","r">>,
     <<"g","o","v","e","r","n","a","n","c","e">>,
     <<"d","e","v","e","l","o","p","m","e","n","t">>,
     <<"s","o","c","i","a","l","_","s","e","r","v","i","c","e","s">> >>

TAG_KEYWORDS ==
  << [tag |-> <<"b","u","d","g","e","t">>,
      keywords |-> << <<"b","u","d","g","e","t">>,
                     <<"o","p","e","r","a","t","i","n","g"," ","b","u","d","g","e","t">>,
                     <<"c","a","p","i","t","a","l"," ","b","u","d","g","e","t">>,
                     <<"f","i","s","c","a","l">>,
                     <<"s","u","r","p","l","u","s">>,
                     <<"d","e","f","i","c","i","t">> >>],
     [tag |-> <<"t","a","x","e","s">>,
      keywords |-> << <<"t","a","x">>,
                     <<"t","a","x","e","s">>,
                     <<"l","e","v","y">>,
                     <<"t","a","x"," ","r","a","t","e">> >>],
     [tag |-> <<"z","o","n","i","n","g">>,
      keywords |-> << <<"z","o","n","i","n","g">>,
                     <<"z","o","n","e">>,
                     <<"r","e","z","o","n","e">>,
                     <<"l","a","n","d"," ","u","s","e">> >>],
     [tag |-> <<"h","o","u","s","i","n","g">>,
      keywords |-> << <<"h","o","u","s","i","n","g">>,
                     <<"a","f","f","o","r","d","a","b","l","e"," ","h","o","u","s","i","n","g">>,
                     <<"r","e","n","t","a","l">>,
                     <<"r","e","s","i","d","e","n","t","i","a","l"," ","d","e","v","e","l","o","p","m","e","n","t">> >>],
     [tag |-> <<"h","o","m","e","l","e","s","s","n","e","s","s">>,
      keywords |-> << <<"h","o","m","e","l","e","s","s">>,
                     <<"s","h","e","l","t","e","r">>,
                     <<"s","h","e","l","t","e","r","i","n","g">>,
                     <<"u","n","s","h","e","l","t","e","r","e","d">> >>],
     [tag |-> <<"t","r","a","n","s","i","t">>,
      keywords |-> << <<"t","r","a","n","s","i","t">>,
                     <<"b","u","s">>,
                     <<"g","u","e","l","p","h"," ","t","r","a","n","s","i","t">>,
                     <<"p","u","b","l","i","c"," ","t","r","a","n","s","i","t">> >>],
     [tag |-> <<"r","o","a","d","s">>,
      keywords |-> << <<"r","o","a","d">>,
                     <<"r","o","a","d","s">>,
                     <<"s","t","r","e","e","t">>,
                     <<"t","r","a","f","f","i","c">>,
                     <<"s","p","e","e","d"," ","l","i","m","i","t">>,
                     <<"i","n","t","e","r","s","e","c","t","i","o","n">> >>],
     [tag |-> <<"s","a","f","e","t","y">>,
      keywords |-> << <<"s","a","f","e","t","y">>,
                     <<"s","a","f","e">>,
                     <<"s","p","e","e","d"," ","l","i","m","i","t">>,
                     <<"p","e","d","e","s","t","r","i","a","n">>,
                     <<"c","r","o","s","s","w","a","l","k">> >>],
     [tag |-> <<"e","n","v","i","r","o","n","m","e","n","t">>,
      keywords |-> << <<"c","l","i","m","a","t","e">>,
                     <<"e","n","v","i","r","o","n","m","e","n","t">>,
                     <<"e","m","i","s","s","i","o","n","s">>,
                     <<"g","r","e","e","n">>,
                     <<"s","u","s","t","a","i","n","a","b","i","l","i","t","y">> >>],
     [tag |-> <<"p","a","r","k","s">>,
      keywords |-> << <<"p","a","r","k">>,
                     <<"p","a","r","k","s">>,
                     <<"r","e","c","r","e","a","t","i","o","n">>,
                     <<"t","r","a","i","l">>,
                     <<"g","r","e","e","n"," ","s","p","a","c","e">> >>],
     [tag |-> <<"w","a","t","e","r">>,
      keywords |-> << <<"w","a","t","e","r">>,
                     <<"w","a","s","t","e","w","a","t","e","r">>,
                     <<"s","t","o","r","m","w","a","t","e","r">>,
                     <<"s","e","w","e","r">> >>],
     [tag |-> <<"g","o","v","e","r","n","a","n","c","e">>,
      keywords |-> << <<"b","y","l","a","w">>,
                     <<"b","y","-","l","a","w">>,
                     <<"c","o","u","n","c","i","l">>,
                     <<"c","o","m","m","i","t","t","e","e">>,
                     <<"a","p","p","o","i","n","t","m","e","n","t">>,
                     <<"v","a","c","a","n","c","y">> >>],
     [tag |-> <<"d","e","v","e","l","o","p","m","e","n","t">>,
      keywords |-> << <<"d","e","v","e","l","o","p","m","e","n","t">>,
                     <<"s","i","t","e"," ","p","l","a","n">>,
                     <<"s","u","b","d","i","v","i","s","i","o","n">>,
                     <<"b","u","i","l","d","i","n","g"," ","p","e","r","m","i","t">> >>],
     [tag |-> <<"s","o","c","i","a","l","_","s","e","r","v","i","c","e","s">>,
      keywords |-> << <<"s","o","c","i","a","l">>,
                     <<"c","o","m","m","u","n","i","t","y"," ","s","e","r","v","i","c","e","s">>,
                     <<"s","h","e","l","t","e","r">>,
                     <<"d","a","y","t","i","m","e">> >>] >>


GENERAL == <<"g","e","n","e","r","a","l">>

SUMMARY_LABEL == <<"S","U","M","M","A","R","Y",":">>

TAGS_LABEL == <<"T","A","G","S",":">>

\* line[:300] and the 30-character threshold of the keyword summary
SummaryMinLen == 30

SummaryMaxLen == 300

\* lines = [ln.strip() for ln in raw_text.split("\n") if ln.strip()]
NonEmptyLines(raw_text) ==
  SelectSeq([i \in 1..Len(Split(raw_text, "\n")) |-> Strip(Split(raw_text, "\n")[i])],
            LAMBDA ln : ln # <<>>)

\* lines 46-49: summary = ""; for line in lines: the first line with
\* len(line) > 30 sets summary = line[:300] and ends the loop
RECURSIVE SummaryLoop(_)
SummaryLoop(lines) ==
  IF lines = <<>> THEN <<>>
  ELSE IF Len(Head(lines)) > SummaryMinLen THEN Take(Head(lines), SummaryMaxLen)
  ELSE SummaryLoop(Tail(lines))

\* the summary is the first line, whatever its length
KeywordSummaryFirstLine(raw_text) ==
  LET lines == NonEmptyLines(raw_text)
  IN  IF lines # <<>> THEN Take(lines[1], SummaryMaxLen) ELSE <<>>

\* lines 44-51: the loop, then "if not summary and lines" takes lines[0][:300]
KeywordSummary(raw_text) ==
  LET lines   == NonEmptyLines(raw_text)
      summary == SummaryLoop(lines)
  IN  IF summary = <<>> /\ lines # <<>> THEN Take(lines[1], SummaryMaxLen)
      ELSE summary

\* any(kw in text_lower for kw in keywords)
TopicMatches(entry, text_lower) ==
  \E k \in 1..Len(entry.keywords) : Contains(text_lower, entry.keywords[k])

\* the keywords are looked for in the text as it is written
KeywordTagsCaseSensitive(raw_text) ==
  LET hit  == SelectSeq(TAG_KEYWORDS, LAMBDA e : TopicMatches(e, raw_text))
      tags == [i \in 1..Len(hit) |-> hit[i].tag]
  IN  IF tags = <<>> THEN <<GENERAL>> ELSE tags

\* topics in table order, "general" when none matches
KeywordTags(raw_text) ==
  LET text_lower == Lower(raw_text)
      hit  == SelectSeq(TAG_KEYWORDS, LAMBDA e : TopicMatches(e, text_lower))
      tags == [i \in 1..Len(hit) |-> hit[i].tag]
  IN  IF tags = <<>> THEN <<GENERAL>> ELSE tags

_keyword_summarize_and_tag(raw_text) ==
  [raised |-> FALSE, summary |-> KeywordSummary(raw_text), tags |-> KeywordTags(raw_text)]

\* t.strip().lower().replace(" ", "_")
NormalizeTag(t) == ReplaceChar(Lower(Strip(t)), " ", "_")

\* every token of a TAGS: line is taken: no "if t in VALID_TAGS"
TagsOfLineUnfiltered(line) ==
  LET raw_tags == Strip(Drop(line, Len(TAGS_LABEL)))
      parts    == Split(raw_tags, ",")
  IN  [i \in 1..Len(parts) |-> NormalizeTag(parts[i])]

\* the valid tags of one TAGS: line, in order, repeats kept
TagsOfLine(line) ==
  LET raw_tags == Strip(Drop(line, Len(TAGS_LABEL)))
      parts    == Split(raw_tags, ",")
      norm     == [i \in 1..Len(parts) |-> NormalizeTag(parts[i])]
  IN  SelectSeq(norm, LAMBDA t : t \in Range(VALID_TAGS))

\* the loop over response_text.split("\n"): acc is (summary, tags)
RECURSIVE ParseLines(_, _)
ParseLines(lines, acc) ==
  IF lines = <<>> THEN acc
  ELSE LET line == Strip(Head(lines))
       IN  IF StartsWith(Upper(line), SUMMARY_LABEL)
           THEN ParseLines(Tail(lines),
                  [acc EXCEPT !.summary = Strip(Drop(line, Len(SUMMARY_LABEL)))])
           ELSE IF StartsWith(Upper(line), TAGS_LABEL)
           THEN ParseLines(Tail(lines),
                  [acc EXCEPT !.tags = acc.tags \o TagsOfLine(line)])
           ELSE ParseLines(Tail(lines), acc)

\* a parse that raises when the summary line or the valid tags are missing
ParseResponseStrict(text) ==
  LET response_text == Strip(text)
      got == ParseLines(Split(response_text, "\n"), [summary |-> <<>>, tags |-> <<>>])
  IN  [raised  |-> got.summary = <<>> \/ got.tags = <<>>,
       summary |-> got.summary,
       tags    |-> got.tags]

\* the parse of message.content[0].text
ParseResponse(text) ==
  LET response_text == Strip(text)
      got == ParseLines(Split(response_text, "\n"), [summary |-> <<>>, tags |-> <<>>])
  IN  [raised  |-> FALSE,
       summary |-> IF got.summary = <<>> THEN Take(response_text, SummaryMaxLen)
                   ELSE got.summary,
       tags    |-> IF got.tags = <<>> THEN <<GENERAL>> ELSE got.tags]

\* The provider call either raises (import, network, provider error, empty
\* content) or answers with a text.
_llm_summarize_and_tag(raw_text, outcome) ==
  IF outcome.kind = "error"
  THEN [raised |-> TRUE, summary |-> <<>>, tags |-> <<>>]
  ELSE ParseResponse(outcome.text)

\* no try/except around the primary strategy
summarize_and_tag_uncaught(raw_text, api_key, outcome) ==
  IF api_key
  THEN _llm_summarize_and_tag(raw_text, outcome)
  ELSE _keyword_summarize_and_tag(raw_text)

summarize_and_tag(raw_text, api_key, outcome) ==
  IF api_key
  THEN LET r == _llm_summarize_and_tag(raw_text, outcome)
       IN  IF r.raised THEN _keyword_summarize_and_tag(raw_text) ELSE r
  ELSE _keyword_summarize_and_tag(raw_text)

\* ------------------------------------------------------------------------
\* api/routes/meetings.py: the now/next estimator
\* ------------------------------------------------------------------------

\* code-point order of the characters that occur in item numbers and texts
CharOrder ==
  <<"\t", "\n", "\r", " ", ",", "-", ".",
    "0","1","2","3","4","5","6","7","8","9", ":">>
  \o UpperChars \o <<"_">> \o LowerChars

Ord(c) == CHOOSE i \in 1..Len(CharOrder) : CharOrder[i] = c

\* Python's str < str
RECURSIVE StrLess(_, _)
StrLess(a, b) ==
  IF b = <<>> THEN FALSE
  ELSE IF a = <<>> THEN TRUE
  ELSE IF Head(a) = Head(b) THEN StrLess(Tail(a), Tail(b))
  ELSE Ord(Head(a)) < Ord(Head(b))

\* sorted(items, key=lambda i: i.item_number); item numbers of one meeting
\* are distinct (uq_meeting_item)
RECURSIVE SortByItemNumber(_)
SortByItemNumber(items) ==
  IF items = {} THEN <<>>
  ELSE LET first == CHOOSE x \in items :
                      \A y \in items \ {x} : StrLess(x.item_number, y.item_number)
       IN  <<first>> \o SortByItemNumber(items \ {first})

SecondsPerMinute == 60

\* item.estimated_start_offset_minutes or 0
OffsetOrZero(item) ==
  IF item.estimated_start_offset_minutes = NullInt THEN 0
  ELSE item.estimated_start_offset_minutes

\* elapsed > offset
ReachedStrictly(elapsed_seconds, item) ==
  elapsed_seconds > OffsetOrZero(item) * SecondsPerMinute

\* elapsed >= offset, with elapsed = total_seconds() / 60.0
Reached(elapsed_seconds, item) ==
  elapsed_seconds >= OffsetOrZero(item) * SecondsPerMinute

\* the for loop of _estimate_current_next from index i on
RECURSIVE Walk(_, _, _, _, _)
Walk(items, i, elapsed_seconds, current, next_item) ==
  IF i > Len(items) THEN <<current, next_item>>
  ELSE IF Reached(elapsed_seconds, items[i])
  THEN Walk(items, i + 1, elapsed_seconds, items[i],
            IF i + 1 <= Len(items) THEN items[i + 1] ELSE NullRow)
  ELSE IF current = NullRow THEN <<current, items[i]>>
  ELSE <<current, next_item>>

\* returns <<current, next>>; start and now are in seconds
_estimate_current_next(start_datetime, agenda_items, now) ==
  LET items == SortByItemNumber(agenda_items)
  IN  IF items = <<>> THEN <<NullRow, NullRow>>
      ELSE IF start_datetime = NullInt
      THEN <<items[1], IF Len(items) > 1 THEN items[2] ELSE NullRow>>
      ELSE Walk(items, 1, now - start_datetime, NullRow, NullRow)

\* ------------------------------------------------------------------------
\* ingestion/guelph.py: URL, header and agenda parsing
\* ------------------------------------------------------------------------

SECTION_MAP ==
  <<"opening", "closed_meeting", "closed_summary", "open_meeting",
    "confirmation_of_minutes", "consent", "items_for_discussion", "bylaws",
    "announcements", "adjournment">>

MEETING_TYPE_KEYWORDS ==
  << [keyword |-> <<"c","o","m","m","i","t","t","e","e"," ","o","f"," ","t","h","e"," ","w","h","o","l","e">>,
      mtype |-> "committee"],
     [keyword |-> <<"c","i","t","y"," ","c","o","u","n","c","i","l">>,
      mtype |-> "council"],
     [keyword |-> <<"p","l","a","n","n","i","n","g">>,
      mtype |-> "planning"],
     [keyword |-> <<"p","u","b","l","i","c"," ","s","e","r","v","i","c","e","s">>,
      mtype |-> "committee"],
     [keyword |-> <<"g","o","v","e","r","n","a","n","c","e">>,
      mtype |-> "committee"],
     [keyword |-> <<"a","u","d","i","t">>,
      mtype |-> "committee"] >>

GUELPH_LIVESTREAM_URL == "https://guelph.ca/news/live/"

\* a URL without an Id parameter is accepted: the identifier is empty
_extract_guid_from_url_lenient(url) ==
  IF url.Id # NULL THEN url.Id ELSE url.id

\* A URL is its query parameters: the values of "Id" and "id" (NULL when the
\* parameter is missing or blank).  Raises ValueError when both are missing.
_extract_guid_from_url(url) ==
  IF url.Id # NULL THEN url.Id
  ELSE IF url.id # NULL THEN url.id
  ELSE "ValueError"

_infer_meeting_type(title) ==
  LET title_lower == Lower(title)
      hits == {i \in 1..Len(MEETING_TYPE_KEYWORDS) :
                 Contains(title_lower, MEETING_TYPE_KEYWORDS[i].keyword)}
  IN  IF hits = {} THEN "council" ELSE MEETING_TYPE_KEYWORDS[MinOf(hits)].mtype

Digits == <<"0","1","2","3","4","5","6","7","8","9">>

IsDigit(c) == \E d \in 1..Len(Digits) : Digits[d] = c

DigitValue(c) == (CHOOSE d \in 1..Len(Digits) : Digits[d] = c) - 1

RECURSIVE DecimalValue(_)
DecimalValue(s) ==
  IF s = <<>> THEN 0
  ELSE DecimalValue(SubSeq(s, 1, Len(s) - 1)) * 10 + DigitValue(s[Len(s)])

\* int(text): surrounding whitespace, one sign and single underscores
\* between digits are accepted; raised stands for ValueError
ParseInt(text) ==
  LET body   == Strip(text)
      signed == body # <<>> /\ Head(body) \in {"+", "-"}
      group  == IF signed THEN Tail(body) ELSE body
      digits == SelectSeq(group, LAMBDA ch : ch # "_")
  IN  IF \/ group = <<>>
         \/ \E i \in 1..Len(group) : ~IsDigit(group[i]) /\ group[i] # "_"
         \/ ~IsDigit(group[1]) \/ ~IsDigit(group[Len(group)])
         \/ \E i \in 1..(Len(group) - 1) : group[i] = "_" /\ group[i + 1] = "_"
      THEN [raised |-> TRUE]
      ELSE [raised |-> FALSE,
            value  |-> IF signed /\ Head(body) = "-" THEN 0 - DecimalValue(digits)
                       ELSE DecimalValue(digits)]

\* the whole item number is read as the integer: no split at "."
_infer_section_unsplit(item_number) ==
  LET major == ParseInt(item_number)
  IN  IF major.raised THEN "other"
      ELSE IF major.value \in 1..Len(SECTION_MAP) THEN SECTION_MAP[major.value]
      ELSE "other"

\* lines 78-84
_infer_section(item_number) ==
  LET major == ParseInt(Split(item_number, ".")[1])
  IN  IF major.raised THEN "other"
      ELSE IF major.value \in 1..Len(SECTION_MAP) THEN SECTION_MAP[major.value]
      ELSE "other"

\* a datetime is a number of seconds; day, hour and minute are its fields
DateTime(day, hour, minute) == ((day * 24 + hour) * 60 + minute) * 60

\* start_dt.replace(hour=h, minute=m, second=0)
ReplaceTime(dt, hour, minute) == DateTime(dt \div (24 * 60 * 60), hour, minute)

\* the header region of a document:
\*   title : NullText or the text of h1.AgendaHeaderTitle
\*   start : the span.AgendaMeetingTimeStart: kind "absent" (no span),
\*           "no_time" (no <time>), "no_attr" (no datetime attribute),
\*           "bad" (dateutil cannot parse it) or "ok" with day, hour, minute
\*   end   : the span.AgendaMeetingTimeEnd, the same kinds, with hour, minute
\*   location, address : NullText or the text of div.Location / div.Address1
TitleSuffixLong == <<"M","e","e","t","i","n","g"," ","A","g","e","n","d","a">>

TitleSuffixShort == <<"A","g","e","n","d","a">>

DefaultTitle == <<"M","e","e","t","i","n","g">>

_parse_meeting_header(header) ==
  LET raw_title == IF header.title # NullText THEN Strip(header.title) ELSE DefaultTitle
      title     == Strip(RemoveAll(RemoveAll(raw_title, TitleSuffixLong), TitleSuffixShort))
      start_dt  == IF header.start.kind = "ok"
                   THEN DateTime(header.start.day, header.start.hour, header.start.minute)
                   ELSE NullInt
      end_dt    == IF header.end.kind = "ok" /\ start_dt # NullInt
                   THEN ReplaceTime(start_dt, header.end.hour, header.end.minute)
                   ELSE NullInt
      parts     == (IF header.location # NullText THEN <<Strip(header.location)>> ELSE <<>>)
                   \o (IF header.address # NullText THEN <<Strip(header.address)>> ELSE <<>>)
  IN  IF header.start.kind = "bad"
      THEN [raised |-> TRUE]
      ELSE [raised         |-> FALSE,
            title          |-> title,
            start_datetime |-> start_dt,
            end_datetime   |-> end_dt,
            location       |-> IF parts = <<>> THEN NullText ELSE Join(parts, <<",", " ">>)]

RecommendationPrefix == <<"R","e","c","o","m","m","e","n","d","a","t","i","o","n",":"," ">>

\* One counter element of the body region with what the code reaches from it:
\*   classes      : the class tokens of the counter div
\*   counter      : its text
\*   has_item_div : an enclosing div whose class matches ^AgendaItem\b exists
\*   title        : NullRow (no div.AgendaItemTitle) or [link, text], link
\*                  being NullText or the text of the <a> inside it
\*   has_container: an enclosing div.AgendaItemContainer exists
\*   motions, descriptions : the texts of the div.MotionText and
\*                  div.AgendaItemDescription elements inside the container
ItemTitle(el) ==
  IF el.title = NullRow THEN <<>>
  ELSE IF el.title.link # NullText THEN Strip(el.title.link)
  ELSE Strip(el.title.text)

NonEmptyStripped(texts) ==
  SelectSeq([i \in 1..Len(texts) |-> Strip(texts[i])], LAMBDA x : x # <<>>)

ItemRawText(el, item_number_raw, title) ==
  LET mots  == IF el.has_container THEN NonEmptyStripped(el.motions) ELSE <<>>
      descs == IF el.has_container THEN NonEmptyStripped(el.descriptions) ELSE <<>>
  IN  Join(<<item_number_raw \o <<" ">> \o title>>
           \o [i \in 1..Len(mots) |-> RecommendationPrefix \o mots[i]]
           \o descs,
           <<"\n">>)

\* no check of the title: an entry without a title gives an item
ParseCounterUntitled(el) ==
  LET item_number_raw == RStripChar(Strip(el.counter), ".")
      title           == ItemTitle(el)
  IN  IF "AgendaItemCounter" \notin el.classes THEN <<>>
      ELSE IF item_number_raw = <<>> THEN <<>>
      ELSE IF ~el.has_item_div THEN <<>>
      ELSE << [item_number |-> item_number_raw,
               title       |-> title,
               raw_text    |-> ItemRawText(el, item_number_raw, title),
               section     |-> _infer_section(item_number_raw)] >>

\* find_all("div") without the class filter: every counter is taken
ParseCounterAnyClass(el) ==
  LET item_number_raw == RStripChar(Strip(el.counter), ".")
      title           == ItemTitle(el)
  IN  IF item_number_raw = <<>> THEN <<>>
      ELSE IF ~el.has_item_div THEN <<>>
      ELSE IF title = <<>> THEN <<>>
      ELSE << [item_number |-> item_number_raw,
               title       |-> title,
               raw_text    |-> ItemRawText(el, item_number_raw, title),
               section     |-> _infer_section(item_number_raw)] >>

\* the body of the loop over the counters: <<>> when the entry is skipped
ParseCounter(el) ==
  LET item_number_raw == RStripChar(Strip(el.counter), ".")
      title           == ItemTitle(el)
  IN  IF "AgendaItemCounter" \notin el.classes THEN <<>>
      ELSE IF item_number_raw = <<>> THEN <<>>
      ELSE IF ~el.has_item_div THEN <<>>
      ELSE IF title = <<>> THEN <<>>
      ELSE << [item_number |-> item_number_raw,
               title       |-> title,
               raw_text    |-> ItemRawText(el, item_number_raw, title),
               section     |-> _infer_section(item_number_raw)] >>

RECURSIVE _parse_agenda_items(_)
_parse_agenda_items(counters) ==
  IF counters = <<>> THEN <<>>
  ELSE ParseCounter(Head(counters)) \o _parse_agenda_items(Tail(counters))

\* ------------------------------------------------------------------------
\* db/models.py, db/session.py: the relational store and a session's
\* transaction
\* ------------------------------------------------------------------------

\* the municipality row seeded at startup (db/seed.py); read-only here
Municipalities == {[id |-> 1, slug |-> "guelph", timezone |-> "America/Toronto"]}

EmptyStore == [meetings |-> {}, items |-> {}, tags |-> {}, item_tags |-> {}]

\* what a transaction has written and not yet committed: rows inserted or
\* updated, association rows added and deleted
EmptyTx == [meetings |-> {}, items |-> {}, tags |-> {}, add |-> {}, del |-> {}]

Overlay(rows, written) ==
  {r \in rows : \A w \in written : w.id # r.id} \cup written

\* what the statements of a transaction t read: the committed rows under
\* its own writes (sessionmaker(autocommit=False))
View(d, t) ==
  [meetings  |-> Overlay(d.meetings, t.meetings),
   items     |-> Overlay(d.items, t.items),
   tags      |-> d.tags \cup t.tags,
   item_tags |-> (d.item_tags \ t.del) \cup t.add]

\* db.commit(): the writes of t become the committed store
Committed(d, t) == View(d, t)

\* a store that commits every flush (autocommit)
StoreAfterFlushAutocommit(d, t) == View(d, t)

\* db.flush(): the statements are sent inside the open transaction; the
\* committed store is not touched
StoreAfterFlush(d, t) == d

\* db.close() with an open transaction: its writes are dropped
StoreAfterRollback(d, t) == d

\* an autoincrement key: an id no row holds (ids are opaque: the least one
\* stands for the next value of the sequence)
FreshId(rows) ==
  LET used == {r.id : r \in rows}
  IN  MinOf((1..(Cardinality(used) + 1)) \ used)

\* write (insert or update by primary key) one row
WriteRow(written, row) == {w \in written : w.id # row.id} \cup {row}

\* the IntegrityError of a statement, with the constraint it names
NotNullStart == "IntegrityError: meetings.start_datetime NOT NULL"

NotNullTitle == "IntegrityError: meetings.title NOT NULL"

UniqueExternalId == "IntegrityError: meetings.external_id UNIQUE"

UniqueMeetingItem == "IntegrityError: uq_meeting_item"

AssociationKey == "IntegrityError: agenda_item_tag PRIMARY KEY"

\* Meeting: start_datetime, title are NOT NULL; external_id is unique
MeetingRowError(view, row) ==
  IF row.start_datetime = NullInt THEN NotNullStart
  ELSE IF row.title = NullText THEN NotNullTitle
  ELSE IF \E m \in view.meetings : m.id # row.id /\ m.external_id = row.external_id
       THEN UniqueExternalId
  ELSE NULL

\* AgendaItem: uq_meeting_item
ItemRowError(view, row) ==
  IF \E i \in view.items : i.id # row.id /\ i.meeting_id = row.meeting_id
                           /\ i.item_number = row.item_number
  THEN UniqueMeetingItem
  ELSE NULL

TagByName(view, name) == CHOOSE g \in view.tags : g.name = name

\* the names of the tags associated with an item, as the lazy load of
\* agenda_item.tags returns them
RECURSIVE SetToSeq(_)
SetToSeq(S) ==
  IF S = {} THEN <<>>
  ELSE LET x == CHOOSE y \in S : TRUE IN <<x>> \o SetToSeq(S \ {x})

ItemTagNames(view, item_id) ==
  {g.name : g \in {h \in view.tags :
      [agenda_item_id |-> item_id, tag_id |-> h.id] \in view.item_tags}}

\* How the unit of work sends the rows of a collection that holds a member
\* twice: AgendaItem.tags and Tag.agenda_items are two sides of one
\* association, and the side flushed first decides whether a repeated row is
\* sent once or twice; the driver decides whether a DELETE that matches
\* fewer rows than sent is reported.
FlushModes == [twice : BOOLEAN, stale : BOOLEAN]

\* the modes that can differ on these collections: one mode when none of
\* them holds a member twice
ModesFor(pending, lists) ==
  IF /\ \A l \in lists : NoDuplicates(l)
     /\ pending # NullRow => NoDuplicates(pending.current) /\ NoDuplicates(pending.original)
  THEN {[twice |-> FALSE, stale |-> FALSE]}
  ELSE FlushModes

\* The unit of work on one item's tags collection at a flush: the rows to
\* insert are the members not in the collection as last flushed or loaded
\* (repeats kept), the rows to delete the former members no longer in it.
\* Two inserts of one (item, tag) violate the primary key of agenda_item_tag;
\* two deletes of one row match a single row (StaleDataError).
FlushTags(d, t, pending, mode) ==
  IF pending = NullRow THEN [t |-> t, error |-> NULL]
  ELSE
  LET view    == View(d, t)
      added   == SelectSeq(pending.current, LAMBDA x : x \notin Range(pending.original))
      deleted == SelectSeq(pending.original, LAMBDA x : x \notin Range(pending.current))
      row(n)  == [agenda_item_id |-> pending.item_id, tag_id |-> TagByName(view, n).id]
      ins     == {row(n) : n \in Range(added)}
      rem     == {row(n) : n \in Range(deleted)}
  IN  IF (~NoDuplicates(added) /\ mode.twice) \/ ins \cap view.item_tags # {}
      THEN [t |-> t, error |-> AssociationKey]
      ELSE IF ~NoDuplicates(deleted) /\ mode.twice /\ mode.stale
      THEN [t |-> t, error |-> "StaleDataError"]
      ELSE [t |-> [t EXCEPT !.add = (@ \ rem) \cup ins, !.del = (@ \ ins) \cup rem],
            error |-> NULL]

\* models.py line 116: Tag.name is unique
UniqueTagName == "IntegrityError: tags.name UNIQUE"

\* PostgreSQL aborts one of the transactions that wait for each other
DeadlockDetected == "OperationalError: deadlock detected"

\* a store without unique indexes and row locks: no statement waits
ClashNever(t, o) == FALSE

\* Two open transactions (config.py lines 4-6: PostgreSQL, READ COMMITTED)
\* touch the same row or the same unique key: the statement of the later
\* one waits until the earlier transaction ends.
Clash(t, o) ==
  \/ \E m \in t.meetings, n \in o.meetings :
       m.id = n.id \/ m.external_id = n.external_id
  \/ \E i \in t.items, j \in o.items :
       i.id = j.id \/ (i.meeting_id = j.meeting_id /\ i.item_number = j.item_number)
  \/ \E g \in t.tags, h \in o.tags : g.name = h.name
  \/ (t.add \cup t.del) \cap (o.add \cup o.del) # {}

NoKeys == [meetings |-> {}, items |-> {}, tags |-> {}, item_tags |-> {}]

\* the unique keys of the rows a transaction inserts into the store d
InsertedKeys(d, t) ==
  [meetings  |-> {m.external_id :
                    m \in {x \in t.meetings : \A y \in d.meetings : y.id # x.id}},
   items     |-> {<<i.meeting_id, i.item_number>> :
                    i \in {x \in t.items : \A y \in d.items : y.id # x.id}},
   tags      |-> {g.name : g \in t.tags},
   item_tags |-> t.add \ d.item_tags]

\* the constraint an INSERT that waited violates once the other
\* transaction has committed its row (NULL: none, the statement goes on)
KeyError(d, keys) ==
  IF keys.meetings \cap {m.external_id : m \in d.meetings} # {}
  THEN UniqueExternalId
  ELSE IF keys.items \cap {<<i.meeting_id, i.item_number>> : i \in d.items} # {}
  THEN UniqueMeetingItem
  ELSE IF keys.tags \cap {g.name : g \in d.tags} # {}
  THEN UniqueTagName
  ELSE IF keys.item_tags \cap d.item_tags # {}
  THEN AssociationKey
  ELSE NULL

\* ------------------------------------------------------------------------
\* Inputs: URLs, documents, provider answers
\* ------------------------------------------------------------------------

\* the most counter elements of a fetched document
MaxCounters == 2

\* the most ingest calls of one behaviour
MaxRuns == 2

UrlPool ==
  {[Id |-> "guid-a", id |-> NULL],
   [Id |-> NULL, id |-> "guid-b"],
   [Id |-> NULL, id |-> NULL]}

SlugPool == {"guelph", "elsewhere"}

StartPool ==
  {[kind |-> "absent"], [kind |-> "no_attr"], [kind |-> "bad"],
   [kind |-> "ok", day |-> 1, hour |-> 16, minute |-> 0]}

HeaderPool ==
  {[title    |-> <<"C","i","t","y"," ","C","o","u","n","c","i","l"," ","M","e","e","t","i","n","g"," ","A","g","e","n","d","a">>,
    start    |-> st,
    end      |-> [kind |-> "ok", hour |-> 22, minute |-> 0],
    location |-> <<"C","i","t","y"," ","H","a","l","l">>,
    address  |-> <<"1"," ","C","a","r","d","e","n"," ","S","t">>] : st \in StartPool}
  \cup
  {[title    |-> NullText,
    start    |-> [kind |-> "ok", day |-> 2, hour |-> 18, minute |-> 30],
    end      |-> [kind |-> "bad"],
    location |-> NullText,
    address  |-> NullText]}

OpenCounter(number, title, motions) ==
  [classes |-> {"AgendaItemCounter"}, counter |-> number, has_item_div |-> TRUE,
   title |-> [link |-> NullText, text |-> title], has_container |-> TRUE,
   motions |-> motions, descriptions |-> <<>>]

CounterPool ==
  {OpenCounter(<<"1",".">>, <<"C","a","l","l"," ","t","o"," ","O","r","d","e","r">>, <<>>),
   OpenCounter(<<"6",".","1">>, <<"B","u","d","g","e","t"," ","a","n","d"," ","T","a","x"," ","L","e","v","y">>,
               <<<<"T","h","a","t"," ","t","h","e"," ","2","0","2","6"," ","b","u","d","g","e","t"," ","b","e"," ","a","p","p","r","o","v","e","d">>>>),
   [OpenCounter(<<"2",".","1">>, <<"C","l","o","s","e","d"," ","S","e","s","s","i","o","n">>, <<>>)
      EXCEPT !.classes = {"ClosedAgendaItemCounter"}],
   [OpenCounter(<<"7",".","1">>, <<>>, <<>>) EXCEPT !.title = NullRow],
   OpenCounter(<<"8",".","1">>, <<" ">>, <<>>),
   OpenCounter(<<".">>, <<"B","y","l","a","w","s">>, <<>>)}

SoupPool == SeqsUpTo(CounterPool, MaxCounters)

FetchOutcomes ==
  {[kind |-> "error"]}
  \cup {[kind |-> "html", header |-> h, counters |-> c] :
          h \in HeaderPool, c \in SoupPool}

\* what the remote provider does on one call: it raises, or answers a text
ProviderError == [kind |-> "error"]

Answer(text) == [kind |-> "text", text |-> text]

\* no call is made when ANTHROPIC_API_KEY is empty
NoCall == [kind |-> "none"]

IngestProviderPool ==
  {ProviderError,
   Answer(<<"S","U","M","M","A","R","Y",":"," ","P","a","r","k"," ","f","e","e","s",".","\n","T","A","G","S",":"," ","f","o","o",","," ","p","a","r","k","s">>),
   Answer(<<"S","U","M","M","A","R","Y",":"," ","P","a","r","k"," ","f","e","e","s",".","\n","T","A","G","S",":"," ","p","a","r","k","s",","," ","p","a","r","k","s">>)}

\* The pure functions of the pipeline, tabulated over the inputs above (each
\* value is computed once, by the operator that models the code).
ParsedHeaders == [h \in HeaderPool |-> _parse_meeting_header(h)]

ParsedItems == [c \in SoupPool |-> _parse_agenda_items(c)]

MeetingTypes ==
  [title \in {ParsedHeaders[h].title : h \in {g \in HeaderPool : ~ParsedHeaders[g].raised}}
     |-> _infer_meeting_type(title)]

RawTexts == UNION {{ParsedItems[c][i].raw_text : i \in 1..Len(ParsedItems[c])} : c \in SoupPool}

Classified ==
  [k \in BOOLEAN |-> [o \in IngestProviderPool \cup {NoCall} |->
     [x \in RawTexts |-> summarize_and_tag(x, k, o)]]]

\* ------------------------------------------------------------------------
\* State
\* ------------------------------------------------------------------------

VARIABLES
  db,       \* the committed store, as every reader sees it
  tx,       \* per session: the uncommitted writes of its transaction
  pc,       \* per session: where its ingest call stands
  call,     \* per session: the locals of its ingest call
  runs,     \* ingest calls started so far
  api_key,  \* ANTHROPIC_API_KEY is set
  lastOk,   \* the inputs and the committed store of the last successful call,
            \* and those of the successful call before it
  cIn, cOut,  \* an application of summarize_and_tag: arguments, result
  eIn, eOut,  \* an application of _estimate_current_next: arguments, result
  pIn, pOut   \* an application of a function of the parser: function and
              \* argument, result

ingestVars == <<db, tx, pc, call, runs, api_key, lastOk>>

classifyVars == <<cIn, cOut>>

estimateVars == <<eIn, eOut>>

parseVars == <<pIn, pOut>>

vars == <<db, tx, pc, call, runs, api_key, lastOk, cIn, cOut, eIn, eOut, pIn, pOut>>

Sessions == {"s1", "s2"}

\* the sessions that call ingest one call after the other (cli.py, or
\* admin_ingest requests that do not overlap)
Callers == {"s1"}

\* a call that waits for no other transaction
NotWaiting == [stage |-> NULL, t |-> EmptyTx, keys |-> NoKeys, outcome |-> NoCall]

NoCallYet ==
  [url |-> NullRow, slug |-> NULL, external_id |-> NULL, fetches |-> 0,
   soup |-> <<>>,
   header |-> NullRow, meeting_id |-> NullInt, raw_items |-> <<>>, idx |-> 0,
   offset_minutes |-> 0, results |-> <<>>, loaded |-> <<>>, pending |-> NullRow,
   skipped |-> FALSE, waiting |-> NotWaiting, error |-> NULL, db0 |-> EmptyStore]

IngestInit ==
  /\ db = EmptyStore
  /\ tx = [s \in Sessions |-> EmptyTx]
  /\ pc = [s \in Sessions |-> "idle"]
  /\ call = [s \in Sessions |-> NoCallYet]
  /\ runs = 0
  /\ lastOk = NullRow

\* rows held by any transaction or committed: their ids are taken
AllRows(field) == db[field] \cup UNION {tx[s][field] : s \in Sessions}

\* ------------------------------------------------------------------------
\* ingestion/guelph.py: ingest_meeting_from_url
\* ------------------------------------------------------------------------

\* the exception leaves ingest_meeting_from_url; the caller closes the
\* session (get_db, cmd_ingest), which rolls the transaction back
Raise(s, c, error) ==
  /\ pc' = [pc EXCEPT ![s] = "failed"]
  /\ call' = [call EXCEPT ![s] =
       [c EXCEPT !.error = error, !.soup = <<>>, !.waiting = NotWaiting]]
  /\ tx' = [tx EXCEPT ![s] = EmptyTx]
  /\ db' = StoreAfterRollback(db, tx[s])
  /\ UNCHANGED lastOk

\* the statements that take the transaction of s to t wait for a row or a
\* key that the open transaction of another session holds
Blocked(s, t) == \E o \in Sessions \ {s} : Clash(t, tx[o])

\* The flush does not return. The call keeps what it wrote before the
\* step and remembers the step (stage), the writes it is about to send, the
\* keys it inserts, and the classifier's answer it already has.
Wait(s, c, t, stage, outcome) ==
  /\ pc' = [pc EXCEPT ![s] = "waiting"]
  /\ call' = [call EXCEPT ![s] =
       [c EXCEPT !.waiting = [stage |-> stage, t |-> t,
                              keys |-> InsertedKeys(db, t), outcome |-> outcome]]]
  /\ UNCHANGED <<db, tx, lastOk>>

\* lines 254-265: municipality, external id, fetch, header; the call is
\* given a URL and a slug of the pools, the fetch has one of the outcomes
StartIngestFrom(s, urls, slugs, outcomes, max_runs) ==
  /\ pc[s] \in {"idle", "done", "failed"}
  /\ runs < max_runs
  /\ runs' = runs + 1
  /\ \E url \in urls, slug \in slugs :
       LET c0 == [NoCallYet EXCEPT !.url = url, !.slug = slug, !.db0 = db]
           external_id == _extract_guid_from_url(url)
           c1 == [c0 EXCEPT !.external_id = external_id]
       IN  IF ~\E m \in Municipalities : m.slug = slug
           THEN Raise(s, c0, "MunicipalityNotFound")
           ELSE IF external_id = "ValueError"
           THEN Raise(s, c0, "NoIdParameter")
           ELSE \E fetched \in outcomes :
                  IF fetched.kind = "error"
                  THEN Raise(s, [c1 EXCEPT !.fetches = 1], "FetchError")
                  ELSE IF ParsedHeaders[fetched.header].raised
                  THEN Raise(s, [c1 EXCEPT !.fetches = 1], "ParserError")
                  ELSE /\ pc' = [pc EXCEPT ![s] = "fetched"]
                       /\ call' = [call EXCEPT ![s] =
                            [c1 EXCEPT !.fetches = 1,
                                       !.soup = fetched.counters,
                                       !.header = ParsedHeaders[fetched.header]]]
                       /\ tx' = [tx EXCEPT ![s] = EmptyTx]
                       /\ UNCHANGED <<db, lastOk>>
  /\ UNCHANGED <<api_key, classifyVars, estimateVars, parseVars>>

StartIngest(s) == StartIngestFrom(s, UrlPool, SlugPool, FetchOutcomes, MaxRuns)

\* no lookup by external_id: the call always inserts a meeting row
MeetingRowAlwaysNew(view, c, new_id) ==
  [id |-> new_id,
   municipality_id |-> (CHOOSE m \in Municipalities : m.slug = c.slug).id,
   external_id |-> c.external_id,
   title |-> c.header.title,
   type |-> MeetingTypes[c.header.title],
   start_datetime |-> c.header.start_datetime,
   end_datetime |-> c.header.end_datetime,
   location |-> c.header.location,
   status |-> "scheduled",
   agenda_url |-> c.url,
   livestream_url |-> GUELPH_LIVESTREAM_URL]

\* a stored meeting is found and left as it is: no field is overwritten
MeetingRowKept(view, c, new_id) ==
  LET found == {m \in view.meetings : m.external_id = c.external_id}
  IN  IF found # {}
      THEN CHOOSE m \in found : TRUE
      ELSE MeetingRowAlwaysNew(view, c, new_id)

\* lines 267-290: the meeting row the call writes
MeetingRow(view, c, new_id) ==
  LET found == {m \in view.meetings : m.external_id = c.external_id}
  IN  IF found # {}
      THEN [(CHOOSE m \in found : TRUE) EXCEPT
              !.title = c.header.title,
              !.type = MeetingTypes[c.header.title],
              !.start_datetime = c.header.start_datetime,
              !.end_datetime = c.header.end_datetime,
              !.location = c.header.location,
              !.agenda_url = c.url,
              !.livestream_url = GUELPH_LIVESTREAM_URL]
      ELSE [id |-> new_id,
            municipality_id |-> (CHOOSE m \in Municipalities : m.slug = c.slug).id,
            external_id |-> c.external_id,
            title |-> c.header.title,
            type |-> MeetingTypes[c.header.title],
            start_datetime |-> c.header.start_datetime,
            end_datetime |-> c.header.end_datetime,
            location |-> c.header.location,
            status |-> "scheduled",
            agenda_url |-> c.url,
            livestream_url |-> GUELPH_LIVESTREAM_URL]

\* line 179: the counter elements find_all returns
FoundCounters(soup) == SelectSeq(soup, LAMBDA el : "AgendaItemCounter" \in el.classes)

\* lines 267-296: upsert the meeting, flush, parse the items; skipped tells
\* whether the parser's loop left out a counter it had found (the continue
\* statements at lines 183-184, 188-189 and 199-200)
UpsertMeeting(s) ==
  /\ pc[s] = "fetched"
  /\ \E c \in {call[s]} :
     \E view \in {View(db, tx[s])} :
     \E row \in {MeetingRow(view, c, FreshId(AllRows("meetings")))} :
     \E err \in {MeetingRowError(view, row)} :
         IF err # NULL
         THEN Raise(s, c, err)
         ELSE IF Blocked(s, [tx[s] EXCEPT !.meetings = WriteRow(@, row)])
         THEN Wait(s, c, [tx[s] EXCEPT !.meetings = WriteRow(@, row)],
                   "fetched", NoCall)
         ELSE /\ tx' = [tx EXCEPT ![s].meetings = WriteRow(@, row)]
              /\ db' = StoreAfterFlush(db, tx'[s])
              /\ call' = [call EXCEPT ![s] =
                   [c EXCEPT !.meeting_id = row.id,
                             !.waiting = NotWaiting,
                             !.raw_items = ParsedItems[c.soup],
                             !.skipped = Len(ParsedItems[c.soup]) < Len(FoundCounters(c.soup)),
                             !.soup = <<>>,
                             !.idx = 1,
                             !.offset_minutes = 0]]
              /\ pc' = [pc EXCEPT ![s] = "items"]
              /\ UNCHANGED lastOk
  /\ UNCHANGED <<runs, api_key, classifyVars, estimateVars, parseVars>>

\* line 304: the sections whose items are given 5 minutes
ProceduralSections ==
  {"opening", "closed_meeting", "closed_summary", "adjournment", "announcements"}

ProceduralMinutes == 5

SubstantiveMinutes == 15

\* every item is given the substantive increment
IncrementFlat(section) == SubstantiveMinutes

Increment(section) ==
  IF section \in ProceduralSections THEN ProceduralMinutes ELSE SubstantiveMinutes

\* the counter is incremented before the item's offset is assigned
ItemRowOffsetAfter(view, c, item_data, summary, new_id) ==
  LET found == {i \in view.items : i.meeting_id = c.meeting_id
                                   /\ i.item_number = item_data.item_number}
      later == c.offset_minutes + Increment(item_data.section)
  IN  IF found # {}
      THEN [(CHOOSE i \in found : TRUE) EXCEPT
              !.title = item_data.title,
              !.raw_text = item_data.raw_text,
              !.summary_text = summary,
              !.section = item_data.section,
              !.estimated_start_offset_minutes = later]
      ELSE [id |-> new_id,
            meeting_id |-> c.meeting_id,
            item_number |-> item_data.item_number,
            title |-> item_data.title,
            raw_text |-> item_data.raw_text,
            summary_text |-> summary,
            section |-> item_data.section,
            estimated_start_offset_minutes |-> later,
            actual_start_datetime |-> NullInt,
            actual_end_datetime |-> NullInt,
            status |-> "pending"]

\* a stored item that is found is given the values of a new one: its
\* status and its actual timestamps are reset
ItemRowStatusReset(view, c, item_data, summary, new_id) ==
  LET found == {i \in view.items : i.meeting_id = c.meeting_id
                                   /\ i.item_number = item_data.item_number}
  IN  [id |-> IF found # {} THEN (CHOOSE i \in found : TRUE).id ELSE new_id,
       meeting_id |-> c.meeting_id,
       item_number |-> item_data.item_number,
       title |-> item_data.title,
       raw_text |-> item_data.raw_text,
       summary_text |-> summary,
       section |-> item_data.section,
       estimated_start_offset_minutes |-> c.offset_minutes,
       actual_start_datetime |-> NullInt,
       actual_end_datetime |-> NullInt,
       status |-> "pending"]

\* lines 309-332: the agenda item row the call writes
ItemRow(view, c, item_data, summary, new_id) ==
  LET found == {i \in view.items : i.meeting_id = c.meeting_id
                                   /\ i.item_number = item_data.item_number}
  IN  IF found # {}
      THEN [(CHOOSE i \in found : TRUE) EXCEPT
              !.title = item_data.title,
              !.raw_text = item_data.raw_text,
              !.summary_text = summary,
              !.section = item_data.section,
              !.estimated_start_offset_minutes = c.offset_minutes]
      ELSE [id |-> new_id,
            meeting_id |-> c.meeting_id,
            item_number |-> item_data.item_number,
            title |-> item_data.title,
            raw_text |-> item_data.raw_text,
            summary_text |-> summary,
            section |-> item_data.section,
            estimated_start_offset_minutes |-> c.offset_minutes,
            actual_start_datetime |-> NullInt,
            actual_end_datetime |-> NullInt,
            status |-> "pending"]

\* lines 338-340 from tag j on.  st holds the transaction, the collection
\* agenda_item.tags (current) and the collection as last flushed (original).
\* _get_or_create_tag adds a missing tag and flushes, which also flushes the
\* collection as it stands (fl is the result of that flush).
RECURSIVE LinkTags(_, _, _, _, _, _, _)
LinkNewTag(d, taken, st, tags, j, item_id, mode, fl) ==
  IF fl.error # NULL THEN [st EXCEPT !.error = fl.error]
  ELSE LinkTags(d, taken,
                [t |-> fl.t, original |-> st.current,
                 current |-> Append(st.current, tags[j]), error |-> NULL],
                tags, j + 1, item_id, mode)

LinkTags(d, taken, st, tags, j, item_id, mode) ==
  IF st.error # NULL \/ j > Len(tags) THEN st
  ELSE IF \E g \in View(d, st.t).tags : g.name = tags[j]
  THEN LinkTags(d, taken, [st EXCEPT !.current = Append(@, tags[j])],
                tags, j + 1, item_id, mode)
  ELSE LinkNewTag(d, taken, st, tags, j, item_id, mode,
         FlushTags(d,
                   [st.t EXCEPT !.tags = @ \cup
                      {[id |-> FreshId(taken \cup st.t.tags), name |-> tags[j]]}],
                   [item_id |-> item_id, original |-> st.original,
                    current |-> st.current],
                   mode))

\* the collection is kept: new tags are merged into the old ones
ClearedTagsKept(loaded) == loaded

\* line 337: agenda_item.tags.clear()
ClearedTags(loaded) == <<>>

\* line 337: agenda_item.tags is loaded on first use in the session
LoadedTags(d, t, c, item_id) ==
  IF item_id \in DOMAIN c.loaded THEN c.loaded[item_id]
  ELSE SetToSeq(ItemTagNames(View(d, t), item_id))

\* lines 299-342: one iteration of the loop over raw_items.  (The bindings
\* x \in {e} name a value that is used several times.)
ItemStep(s) ==
  /\ pc[s] = "items"
  /\ call[s].idx <= Len(call[s].raw_items)
  /\ \E outcome \in (IF call[s].waiting.stage = "items"
                      THEN {call[s].waiting.outcome}
                      ELSE IF api_key THEN IngestProviderPool ELSE {NoCall}) :
     \E c \in {call[s]} :
     \E item_data \in {c.raw_items[c.idx]} :
     \* line 300
     \E r \in {Classified[api_key][outcome][item_data.raw_text]} :
     \E mode \in ModesFor(c.pending, {r.tags} \cup {c.loaded[i] : i \in DOMAIN c.loaded}) :
     \* line 334: the flush sends the previous item's tag rows and this
     \* item's row
     \E fl0 \in {FlushTags(db, tx[s], c.pending, mode)} :
     \E row \in {ItemRow(View(db, fl0.t), c, item_data, r.summary,
                         FreshId(AllRows("items")))} :
     \E t1 \in {[fl0.t EXCEPT !.items = WriteRow(@, row)]} :
     \* lines 337-340
     \E st \in {LinkTags(db, AllRows("tags"),
                         [t |-> t1, original |-> LoadedTags(db, t1, c, row.id),
                          current |-> ClearedTags(LoadedTags(db, t1, c, row.id)),
                          error |-> NULL],
                         r.tags, 1, row.id, mode)} :
       IF r.raised THEN Raise(s, c, "ClassifierError")
       ELSE IF fl0.error # NULL THEN Raise(s, c, fl0.error)
       ELSE IF ItemRowError(View(db, fl0.t), row) # NULL
       THEN Raise(s, c, ItemRowError(View(db, fl0.t), row))
       ELSE IF st.error # NULL THEN Raise(s, c, st.error)
       ELSE IF Blocked(s, st.t) THEN Wait(s, c, st.t, "items", outcome)
       ELSE /\ tx' = [tx EXCEPT ![s] = st.t]
            /\ db' = StoreAfterFlush(db, st.t)
            /\ call' = [call EXCEPT ![s] =
                 [c EXCEPT !.idx = c.idx + 1,
                           !.waiting = NotWaiting,
                           !.offset_minutes =
                              c.offset_minutes + Increment(item_data.section),
                           !.results = Append(@,
                              [outcome |-> outcome, result |-> r,
                               item_id |-> row.id,
                               section |-> item_data.section,
                               offset |-> row.estimated_start_offset_minutes]),
                           !.loaded = (row.id :> st.current) @@ c.loaded,
                           !.pending = [item_id |-> row.id,
                                        original |-> st.original,
                                        current |-> st.current]]]
            /\ pc' = [pc EXCEPT ![s] = "items"]
            /\ UNCHANGED lastOk
  /\ UNCHANGED <<runs, api_key, classifyVars, estimateVars, parseVars>>

\* what a call was given: the inputs that decide what it stores
CallInputs(c) ==
  [url |-> c.url, slug |-> c.slug, header |-> c.header, raw_items |-> c.raw_items,
   results |-> [k \in 1..Len(c.results) |-> c.results[k].result]]

\* lines 344-352: the loop is over; flush what is pending and commit
Commit(s) ==
  /\ pc[s] = "items"
  /\ call[s].idx > Len(call[s].raw_items)
  /\ \E c \in {call[s]} :
     \E mode \in ModesFor(c.pending, {}) :
     \E fl \in {FlushTags(db, tx[s], c.pending, mode)} :
       IF fl.error # NULL THEN Raise(s, c, fl.error)
       ELSE IF Blocked(s, fl.t) THEN Wait(s, c, fl.t, "items", NoCall)
       ELSE /\ db' = Committed(db, fl.t)
            /\ tx' = [tx EXCEPT ![s] = EmptyTx]
            /\ call' = [call EXCEPT ![s] =
                 [c EXCEPT !.pending = NullRow, !.waiting = NotWaiting]]
            /\ pc' = [pc EXCEPT ![s] = "done"]
            /\ lastOk' = [inputs |-> CallInputs(c), db |-> db',
                          prev |-> IF lastOk = NullRow THEN NullRow
                                   ELSE [inputs |-> lastOk.inputs, db |-> lastOk.db]]
  /\ UNCHANGED <<runs, api_key, classifyVars, estimateVars, parseVars>>

\* line 344: the commit itself fails (connection lost, server error)
CommitFails(s) ==
  /\ pc[s] = "items"
  /\ call[s].idx > Len(call[s].raw_items)
  /\ Raise(s, call[s], "CommitError")
  /\ UNCHANGED <<runs, api_key, classifyVars, estimateVars, parseVars>>

IngestNext ==
  \E s \in Callers :
    \/ StartIngest(s)
    \/ UpsertMeeting(s)
    \/ ItemStep(s)
    \/ Commit(s)
    \/ CommitFails(s)

\* ------------------------------------------------------------------------
\* ingest calls that overlap: admin_ingest requests served at the same
\* time, each with the session get_db gives it (db/session.py lines 10-16)
\* ------------------------------------------------------------------------

\* the most ingest calls of one behaviour with overlapping calls
MaxConcurrentRuns == 3

ConcurrentUrls == {u \in UrlPool : _extract_guid_from_url(u) # "ValueError"}

ConcurrentSlugs == {m.slug : m \in Municipalities}

\* documents with a full header and open, titled items: one item without
\* motions, or two different items in either order
ConcurrentFetches ==
  {f \in FetchOutcomes :
     /\ f.kind = "html"
     /\ f.header.start.kind = "ok" /\ f.header.title # NullText
     /\ Len(f.counters) >= 1
     /\ \A i \in 1..Len(f.counters) :
          /\ f.counters[i].classes = {"AgendaItemCounter"}
          /\ ParseCounter(f.counters[i]) # <<>>
     /\ \A i, j \in 1..Len(f.counters) :
          f.counters[i] = f.counters[j] => i = j
     /\ Len(f.counters) = 1 => f.counters[1].motions = <<>>}

StartConcurrent(s) ==
  StartIngestFrom(s, ConcurrentUrls, ConcurrentSlugs, ConcurrentFetches,
                  MaxConcurrentRuns)

\* The transactions a waiting statement waited for have ended. An INSERT
\* whose unique key another transaction has committed meanwhile fails with
\* that constraint's violation; otherwise the statement goes through (the
\* step is taken again from the state the call kept).
Resume(s) ==
  /\ pc[s] = "waiting"
  /\ ~Blocked(s, call[s].waiting.t)
  /\ IF KeyError(db, call[s].waiting.keys) # NULL
     THEN Raise(s, call[s], KeyError(db, call[s].waiting.keys))
     ELSE /\ pc' = [pc EXCEPT ![s] = call[s].waiting.stage]
          /\ UNCHANGED <<db, tx, call, lastOk>>
  /\ UNCHANGED <<runs, api_key, classifyVars, estimateVars, parseVars>>

\* two waiting statements wait for each other's transaction: the server
\* aborts one of them
Deadlock(s) ==
  /\ pc[s] = "waiting"
  /\ \E o \in Sessions \ {s} :
       /\ pc[o] = "waiting"
       /\ Clash(call[s].waiting.t, tx[o])
       /\ Clash(call[o].waiting.t, tx[s])
  /\ Raise(s, call[s], DeadlockDetected)
  /\ UNCHANGED <<runs, api_key, classifyVars, estimateVars, parseVars>>

ConcurrentNext ==
  \E s \in Sessions :
    \/ StartConcurrent(s)
    \/ UpsertMeeting(s)
    \/ ItemStep(s)
    \/ Commit(s)
    \/ CommitFails(s)
    \/ Resume(s)
    \/ Deadlock(s)

\* ------------------------------------------------------------------------
\* services/summarization.py: summarize_and_tag applied to one text
\* ------------------------------------------------------------------------

\* the most tag tokens on the first TAGS: line of a provider answer
MaxTokens == 4

ClassifyTexts ==
  {<<"1","."," ","C","a","l","l"," ","t","o"," ","O","r","d","e","r">>,
   <<"6",".","1"," ","B","u","d","g","e","t"," ","a","n","d"," ","T","a","x"," ","L","e","v","y","\n","T","h","a","t"," ","t","h","e"," ","2","0","2","6"," ","b","u","d","g","e","t"," ","b","e"," ","a","p","p","r","o","v","e","d">>,
   <<"T","r","a","n","s","i","t"," ","f","a","r","e","s",","," ","p","a","r","k"," ","f","e","e","s"," ","a","n","d"," ","w","a","t","e","r"," ","r","a","t","e","s"," ","i","n"," ","t","h","e"," ","2","0","2","6"," ","b","u","d","g","e","t">>}

\* what the provider may write between the commas of a TAGS: line
TokenPool ==
  {<<"b","u","d","g","e","t">>,
   <<" ","P","a","r","k","s">>,
   <<"s","o","c","i","a","l"," ","s","e","r","v","i","c","e","s">>,
   <<"h","o","u","s","i","n","g">>,
   <<"f","o","o">>}

\* the labels as the provider may write them, and the summary it gives
SummaryLabels == {<<"S","U","M","M","A","R","Y",":"," ">>, <<"s","u","m","m","a","r","y",":"," ">>}

ProviderSummary == <<"P","a","r","k"," ","f","e","e","s",".">>

FirstTagsLabel == <<"T","A","G","S",":"," ">>

SecondTagsLabel == <<"t","a","g","s",":"," ">>

\* the parts of an answer: the label of its summary line (NullText: there is
\* no summary line) and the tokens of each of its TAGS: lines
AnswerParts ==
  {[summary_label |-> l, tag_lines |-> t] :
     l \in SummaryLabels \cup {NullText},
     t \in {<<>>}
           \cup {<<toks>> : toks \in SeqsUpTo(TokenPool, MaxTokens)}
           \cup {<<toks, <<<<"p","a","r","k","s">>>> >> :
                   toks \in SeqsUpTo(TokenPool, MaxTokens)}}

\* the text of an answer made of these parts
AnswerText(parts) ==
  Join((IF parts.summary_label = NullText THEN <<>>
        ELSE <<parts.summary_label \o ProviderSummary>>)
       \o [i \in 1..Len(parts.tag_lines) |->
             (IF i = 1 THEN FirstTagsLabel ELSE SecondTagsLabel)
             \o Join(parts.tag_lines[i], <<",", " ">>)],
       <<"\n">>)

ClassifyInputs ==
  {[raw_text |-> x, api_key |-> FALSE, outcome |-> NoCall, parts |-> NullRow] :
     x \in ClassifyTexts}
  \cup {[raw_text |-> x, api_key |-> TRUE, outcome |-> ProviderError, parts |-> NullRow] :
     x \in ClassifyTexts}
  \cup {[raw_text |-> x, api_key |-> TRUE, outcome |-> Answer(AnswerText(p)), parts |-> p] :
     x \in ClassifyTexts, p \in AnswerParts}

NotApplied == [done |-> FALSE]

ClassifyInit ==
  /\ IngestInit
  /\ api_key = FALSE
  /\ cIn \in ClassifyInputs
  /\ cOut = NotApplied
  /\ eIn = NullRow /\ eOut = NotApplied
  /\ pIn = NullRow /\ pOut = NotApplied

\* summary, tags = summarize_and_tag(raw_text)
Classify ==
  /\ ~cOut.done
  /\ cOut' = [done |-> TRUE,
              result |-> summarize_and_tag(cIn.raw_text, cIn.api_key, cIn.outcome)]
  /\ UNCHANGED <<cIn, ingestVars, estimateVars, parseVars>>

ClassifyNext == Classify

SpecClassify == ClassifyInit /\ [][ClassifyNext]_vars

\* ------------------------------------------------------------------------
\* services/summarization.py: _keyword_summarize_and_tag applied to one text
\* ------------------------------------------------------------------------

\* pieces of agenda text: keywords in upper and lower case, inside longer
\* words, shared by two topics, split over two pieces, and none
PhrasePool ==
  {<<"C","a","l","l"," ","t","o"," ","O","r","d","e","r">>,
   <<"B","u","d","g","e","t">>,
   <<"t","a","x"," ","l","e","v","y">>,
   <<"Z","O","N","I","N","G">>,
   <<"b","u","s","i","n","e","s","s">>,
   <<"S","h","e","l","t","e","r">>,
   <<"s","p","e","e","d"," ","l","i","m","i","t">>,
   <<"l","a","n","d">>,
   <<"u","s","e">>}

PhraseSeparators == {<<" ">>, <<"\n">>}

TagTexts ==
  PhrasePool \cup {a \o sep \o b : a, b \in PhrasePool, sep \in PhraseSeparators}

TenChars == <<"a","b","c","d","e","f","g","h","i","j">>

RECURSIVE Repeat(_, _)
Repeat(unit, n) == IF n = 0 THEN <<>> ELSE unit \o Repeat(unit, n - 1)

\* lines of a text: empty, blank, short, of 30 and 31 characters, of 29
\* characters between spaces, of 300 and 301 characters
LinePool ==
  {<<>>,
   <<" ", "\t">>,
   <<"I","t","e","m">>,
   Repeat(TenChars, 3),
   Repeat(TenChars, 3) \o <<"k">>,
   <<" ", " ">> \o Take(Repeat(TenChars, 3), 29) \o <<" ">>,
   Repeat(TenChars, 30),
   Repeat(TenChars, 30) \o <<"z">>}

\* the most lines of a text
MaxLines == 3

SummaryTexts == {Join(lines, <<"\n">>) : lines \in SeqsUpTo(LinePool, MaxLines)}

KeywordInputs == {[raw_text |-> x] : x \in TagTexts \cup SummaryTexts}

KeywordInit ==
  /\ IngestInit
  /\ api_key = FALSE
  /\ cIn \in KeywordInputs
  /\ cOut = NotApplied
  /\ eIn = NullRow /\ eOut = NotApplied
  /\ pIn = NullRow /\ pOut = NotApplied

\* summary, tags = _keyword_summarize_and_tag(raw_text)
KeywordSummarizeAndTag ==
  /\ ~cOut.done
  /\ cOut' = [done |-> TRUE, result |-> _keyword_summarize_and_tag(cIn.raw_text)]
  /\ UNCHANGED <<cIn, ingestVars, estimateVars, parseVars>>

KeywordNext == KeywordSummarizeAndTag

SpecKeyword == KeywordInit /\ [][KeywordNext]_vars

\* ------------------------------------------------------------------------
\* api/routes/meetings.py: _estimate_current_next applied to one meeting
\* ------------------------------------------------------------------------

ItemNumberPool ==
  {<<"1",".">>, <<"1","0",".","1">>, <<"2",".","1">>, <<"6",".","1">>}

OffsetPool == {0, 5, 20, 35, NullInt}

\* the agenda items of a meeting: distinct item numbers (uq_meeting_item),
\* any offsets
ItemSets ==
  UNION {{{[item_number |-> n, estimated_start_offset_minutes |-> f[n]] : n \in N} :
            f \in [N -> OffsetPool]} : N \in SUBSET ItemNumberPool}

\* the meeting starts on day 1 at 16:00 (in seconds)
MeetingStart == DateTime(1, 16, 0)

\* seconds between the start and "now"
NowPool == {0 - 600, 0, 299, 300, 360, 6000}

EstimateInputs ==
  {[start_datetime |-> st, agenda_items |-> items, now |-> MeetingStart + d] :
     st \in {NullInt, MeetingStart}, items \in ItemSets, d \in NowPool}

EstimateInit ==
  /\ IngestInit
  /\ api_key = FALSE
  /\ cIn = NullRow /\ cOut = NotApplied
  /\ eIn \in EstimateInputs
  /\ eOut = NotApplied
  /\ pIn = NullRow /\ pOut = NotApplied

\* current, next_item = _estimate_current_next(meeting, now)
Estimate ==
  /\ ~eOut.done
  /\ \E r \in {_estimate_current_next(eIn.start_datetime, eIn.agenda_items, eIn.now)} :
       eOut' = [done |-> TRUE, current |-> r[1], next |-> r[2]]
  /\ UNCHANGED <<eIn, ingestVars, classifyVars, parseVars>>

EstimateNext == Estimate

SpecEstimate == EstimateInit /\ [][EstimateNext]_vars

\* ------------------------------------------------------------------------
\* ingestion/guelph.py: the functions of the parser applied to one argument
\* ------------------------------------------------------------------------

\* the text before the first "." of an item number: nothing, plain
\* integers inside and outside the table, a leading zero, signs, a space,
\* an underscore, letters
MajorPool ==
  {<<>>, <<"0">>, <<"1">>, <<"2">>, <<"3">>, <<"4">>, <<"5">>, <<"6">>, <<"7">>,
   <<"8">>, <<"9">>, <<"1","0">>, <<"1","1">>, <<"9","9">>, <<"0","6">>,
   <<"+","6">>, <<"-","1">>, <<" ","6">>, <<"1","_","0">>, <<"a">>, <<"6","a">>}

\* the rest of an item number
MinorPool ==
  {<<>>, <<".">>, <<".","1">>, <<".","9">>, <<".","1","0">>, <<".","a">>,
   <<".","1",".","2">>}

SectionInputs == {major \o minor : major \in MajorPool, minor \in MinorPool}

\* the most counter elements of a document given to _parse_agenda_items
\* alone
MaxParsedCounters == 3

ParseInputs ==
  {[fn |-> "_infer_section", arg |-> x] : x \in SectionInputs}
  \cup {[fn |-> "_parse_agenda_items", arg |-> x] :
           x \in SeqsUpTo(CounterPool, MaxParsedCounters)}

ParseInit ==
  /\ IngestInit
  /\ api_key = FALSE
  /\ cIn = NullRow /\ cOut = NotApplied
  /\ eIn = NullRow /\ eOut = NotApplied
  /\ pIn \in ParseInputs
  /\ pOut = NotApplied

\* section = _infer_section(item_number)
InferSection ==
  /\ ~pOut.done
  /\ pIn.fn = "_infer_section"
  /\ pOut' = [done |-> TRUE, value |-> _infer_section(pIn.arg)]
  /\ UNCHANGED <<pIn, ingestVars, classifyVars, estimateVars>>

\* raw_items = _parse_agenda_items(soup)
ParseAgendaItems ==
  /\ ~pOut.done
  /\ pIn.fn = "_parse_agenda_items"
  /\ pOut' = [done |-> TRUE, value |-> _parse_agenda_items(pIn.arg)]
  /\ UNCHANGED <<pIn, ingestVars, classifyVars, estimateVars>>

ParseNext == InferSection \/ ParseAgendaItems

SpecParse == ParseInit /\ [][ParseNext]_vars

\* ------------------------------------------------------------------------
\* ingestion: the calls of a caller, one after the other
\* ------------------------------------------------------------------------

Init ==
  /\ IngestInit
  /\ api_key \in BOOLEAN
  /\ cIn = NullRow /\ cOut = NotApplied
  /\ eIn = NullRow /\ eOut = NotApplied
  /\ pIn = NullRow /\ pOut = NotApplied

Next == IngestNext

Spec == Init /\ [][Next]_vars

\* the overlapping calls run without a provider key (config.py line 20:
\* the default)
ConcurrentInit ==
  /\ IngestInit
  /\ api_key = FALSE
  /\ cIn = NullRow /\ cOut = NotApplied
  /\ eIn = NullRow /\ eOut = NotApplied
  /\ pIn = NullRow /\ pOut = NotApplied

SpecConcurrent == ConcurrentInit /\ [][ConcurrentNext]_vars

\* ------------------------------------------------------------------------
\* ingestion over rows whose lifecycle columns another writer has set
\* (db/models.py: Meeting.status, AgendaItem.status,
\* AgendaItem.actual_start_datetime, AgendaItem.actual_end_datetime)
\* ------------------------------------------------------------------------

\* the most ingest calls of one behaviour with lifecycle changes
MaxReingestRuns == 2

\* the instants a writer of the actual timestamps records
ActualStart == 1

ActualEnd == 2

\* documents with a header that parses and up to MaxCounters open, titled
\* items
ReingestFetches ==
  {f \in FetchOutcomes :
     /\ f.kind = "html"
     /\ f.header.start.kind = "ok"
     /\ \A i \in 1..Len(f.counters) :
          /\ f.counters[i].classes = {"AgendaItemCounter"}
          /\ ParseCounter(f.counters[i]) # <<>>}

StartReingest(s) ==
  StartIngestFrom(s, ConcurrentUrls, ConcurrentSlugs, ReingestFetches,
                  MaxReingestRuns)

\* Meeting.status (models.py line 71) is written by a writer other than
\* ingest while no ingest call is running: a scheduled meeting starts, a
\* meeting in progress is completed.  (Changes after the last ingest call of
\* a behaviour are left out: no call reads them.)
MeetingProgress ==
  /\ \A s \in Sessions : pc[s] \in {"idle", "done", "failed"}
  /\ runs < MaxReingestRuns
  /\ \E m \in db.meetings :
       /\ m.status \in {"scheduled", "in_progress"}
       /\ db' = [db EXCEPT !.meetings = WriteRow(@,
                   [m EXCEPT !.status = IF m.status = "scheduled"
                                        THEN "in_progress" ELSE "completed"])]
  /\ UNCHANGED <<tx, pc, call, runs, api_key, lastOk,
                 classifyVars, estimateVars, parseVars>>

\* AgendaItem.status and the actual timestamps (models.py lines 95-97) are
\* written by a writer other than ingest while no ingest call is running: a
\* pending item starts, an item in progress is completed
ItemProgress ==
  /\ \A s \in Sessions : pc[s] \in {"idle", "done", "failed"}
  /\ runs < MaxReingestRuns
  /\ \E i \in db.items :
       /\ i.status \in {"pending", "in_progress"}
       /\ db' = [db EXCEPT !.items = WriteRow(@,
                   IF i.status = "pending"
                   THEN [i EXCEPT !.status = "in_progress",
                                  !.actual_start_datetime = ActualStart]
                   ELSE [i EXCEPT !.status = "completed",
                                  !.actual_end_datetime = ActualEnd])]
  /\ UNCHANGED <<tx, pc, call, runs, api_key, lastOk,
                 classifyVars, estimateVars, parseVars>>

ReingestNext ==
  \/ \E s \in Callers :
       \/ StartReingest(s)
       \/ UpsertMeeting(s)
       \/ ItemStep(s)
       \/ Commit(s)
       \/ CommitFails(s)
  \/ MeetingProgress
  \/ ItemProgress

SpecReingest == ConcurrentInit /\ [][ReingestNext]_vars

\* ------------------------------------------------------------------------
\* Properties
\* ------------------------------------------------------------------------

\* the keyword strategy's result for every text of the models
KeywordOf ==
  [x \in RawTexts \cup ClassifyTexts |-> _keyword_summarize_and_tag(x)]

SameResult(r, q) == r.summary = q.summary /\ r.tags = q.tags

\* the last successful call was given what the successful call before it
\* was given: the same URL, document and classifier results
RepeatedCall ==
  /\ "prev" \in DOMAIN lastOk
  /\ "inputs" \in DOMAIN lastOk.prev
  /\ lastOk.prev.inputs = lastOk.inputs

MeetingsOf(d, external_id) == {m \in d.meetings : m.external_id = external_id}

ItemsOf(d, meeting_id, item_number) ==
  {i \in d.items : i.meeting_id = meeting_id /\ i.item_number = item_number}

C2_Atomicity ==
  \A s \in Callers :
    /\ pc[s] \in {"fetched", "items", "failed"} => db = call[s].db0
    /\ pc[s] = "done" =>
         \E m \in db.meetings :
           /\ m.id = call[s].meeting_id
           /\ \A k \in 1..Len(call[s].raw_items) :
                ItemsOf(db, m.id, call[s].raw_items[k].item_number) # {}

\* a call that wrote a meeting, items and tags and then failed
C2_Witness ==
  \E s \in Callers :
    /\ pc[s] = "failed"
    /\ call[s].error \in {"CommitError", AssociationKey}
    /\ Len(call[s].results) = MaxCounters
    /\ db = call[s].db0

\* the results of a call that are the last of their agenda item
LastResults(c) ==
  {k \in 1..Len(c.results) :
     \A j \in (k + 1)..Len(c.results) : c.results[j].item_id # c.results[k].item_id}

\* C3: after a successful ingest the tags associated with each ingested item
\* are exactly the tags the classifier returned for it in that run.
C3_TagReplacement ==
  \A s \in Callers :
    pc[s] = "done" =>
      \A k \in LastResults(call[s]) :
        ItemTagNames(db, call[s].results[k].item_id)
          = Range(call[s].results[k].result.tags)

\* an item that had two tags before the run and has one other tag after it
C3_Witness ==
  \E s \in Callers :
    /\ pc[s] = "done"
    /\ \E k \in LastResults(call[s]) :
         /\ Cardinality(ItemTagNames(call[s].db0, call[s].results[k].item_id)) = 2
         /\ Cardinality(ItemTagNames(db, call[s].results[k].item_id)) = 1
         /\ ItemTagNames(call[s].db0, call[s].results[k].item_id)
              \cap ItemTagNames(db, call[s].results[k].item_id) = {}

\* an item's offset in minutes, a missing one counting as 0
MinutesOf(x) ==
  IF x.estimated_start_offset_minutes = NullInt THEN 0
  ELSE x.estimated_start_offset_minutes

Precedes(x, y) == StrLess(x.item_number, y.item_number)

NonDecreasing(items) ==
  \A x, y \in items : Precedes(x, y) => MinutesOf(x) <= MinutesOf(y)

\* the last item of a set in item_number order, the first one; NullRow for
\* the empty set
LastOf(items) ==
  IF items = {} THEN NullRow
  ELSE CHOOSE x \in items : \A y \in items \ {x} : Precedes(y, x)

FirstOf(items) ==
  IF items = {} THEN NullRow
  ELSE CHOOSE x \in items : \A y \in items \ {x} : Precedes(x, y)

\* the items whose offset is at or before the elapsed time
Started(e) ==
  {x \in e.agenda_items :
     MinutesOf(x) * SecondsPerMinute <= e.now - e.start_datetime}

\* C4: for a meeting with a start time whose items have non-decreasing
\* offsets in item_number order, current is the last item whose offset is at
\* most the elapsed minutes (none: null) and next is the item right after it
\* (the first item when there is no current, null after the last item).
C4_NowNextScheduled ==
  (eOut.done /\ eIn.start_datetime # NullInt /\ NonDecreasing(eIn.agenda_items)) =>
     /\ eOut.current = LastOf(Started(eIn))
     /\ eOut.next = FirstOf(eIn.agenda_items \ Started(eIn))

\* offsets 0, 5, 20, 35 six minutes after the start: current is the item at
\* 5, next the item at 20
C4_Witness ==
  /\ eOut.done
  /\ eIn.start_datetime # NullInt
  /\ NonDecreasing(eIn.agenda_items)
  /\ {MinutesOf(x) : x \in eIn.agenda_items} = {0, 5, 20, 35}
  /\ \A x \in eIn.agenda_items : x.estimated_start_offset_minutes # NullInt
  /\ eIn.now - eIn.start_datetime = 6 * SecondsPerMinute
  /\ MinutesOf(eOut.current) = 5
  /\ MinutesOf(eOut.next) = 20

\* C5: for a meeting without a start time and with at least one item,
\* current is null and next is the first item.
C5_UnscheduledHasNoCurrent ==
  (eOut.done /\ eIn.start_datetime = NullInt /\ eIn.agenda_items # {}) =>
     /\ eOut.current = NullRow
     /\ eOut.next = FirstOf(eIn.agenda_items)

\* C6: an ingest of a document whose header has no start time does not fail
\* on the start time: the meeting is stored with a null start.
C6_MissingStartIsNotFatal ==
  \A s \in Callers :
    ("start_datetime" \in DOMAIN call[s].header
       /\ call[s].header.start_datetime = NullInt)
      => call[s].error # NotNullStart

\* C7: summarize_and_tag never raises; when the primary strategy fails, and
\* when it is not configured, the result is the keyword strategy's result for
\* the same text; no ingest call ends on a classifier failure, and the item
\* whose primary call failed is upserted.
C7_FallbackComposition ==
  \A s \in Callers :
    /\ call[s].error # "ClassifierError"
    /\ \A k \in 1..Len(call[s].results) :
         /\ ~call[s].results[k].result.raised
         /\ call[s].results[k].outcome.kind \in {"error", "none"} =>
              SameResult(call[s].results[k].result,
                         KeywordOf[call[s].raw_items[k].raw_text])
         /\ pc[s] \in {"items", "done"} =>
              \E i \in View(db, tx[s]).items : i.id = call[s].results[k].item_id

\* a successful run whose first item's primary call failed and whose second
\* item was upserted after it
C7_Witness ==
  \E s \in Callers :
    /\ api_key
    /\ pc[s] = "done"
    /\ Len(call[s].results) = MaxCounters
    /\ call[s].results[1].outcome.kind = "error"
    /\ call[s].results[1].item_id # call[s].results[2].item_id
    /\ {call[s].results[1].item_id, call[s].results[2].item_id}
         \subseteq {i.id : i \in db.items}

\* the tag each token of TokenPool stands for (NullText: none)
ExpectedTag ==
  (<<"b","u","d","g","e","t">> :> <<"b","u","d","g","e","t">>)
  @@ (<<" ","P","a","r","k","s">> :> <<"p","a","r","k","s">>)
  @@ (<<"p","a","r","k","s">> :> <<"p","a","r","k","s">>)
  @@ (<<"s","o","c","i","a","l"," ","s","e","r","v","i","c","e","s">>
        :> <<"s","o","c","i","a","l","_","s","e","r","v","i","c","e","s">>)
  @@ (<<"h","o","u","s","i","n","g">> :> <<"h","o","u","s","i","n","g">>)
  @@ (<<"f","o","o">> :> NullText)

\* an answer has a valid tag on one of its TAGS: lines
HasValidTag(parts) ==
  \E i \in 1..Len(parts.tag_lines) :
    \E j \in 1..Len(parts.tag_lines[i]) :
      ExpectedTag[parts.tag_lines[i][j]] # NullText

\* an answer deviates from the two labelled lines
Malformed(parts) ==
  parts.summary_label = NullText \/ parts.tag_lines = <<>> \/ ~HasValidTag(parts)

\* the primary strategy answered
Answered == cOut.done /\ cIn.api_key /\ cIn.outcome.kind = "text"

C9_TagListLength ==
  cOut.done =>
     /\ Len(cOut.result.tags) >= 1
     /\ Answered => Len(cOut.result.tags) <= 3

\* C10: the tag list of summarize_and_tag holds no tag twice.
C10_TagListUnique ==
  cOut.done => NoDuplicates(cOut.result.tags)

\* C11: the offsets one ingest run assigns to the parsed items are
\* non-decreasing in document order, and the first parsed item gets 0.
C11_OffsetOrdering ==
  \A s \in Callers :
    /\ Len(call[s].results) >= 1 => call[s].results[1].offset = 0
    /\ \A k, j \in 1..Len(call[s].results) :
         k < j => call[s].results[k].offset <= call[s].results[j].offset

\* a run over a stored meeting that assigned 0 and then a larger offset to
\* the two items of its document
C11_Witness ==
  \E s \in Callers :
    /\ pc[s] = "done"
    /\ Len(call[s].results) = MaxCounters
    /\ call[s].db0.items # {}
    /\ call[s].results[1].offset = 0
    /\ call[s].results[MaxCounters].offset > 0

\* a call was given a slug no municipality row holds; a URL without Id
UnknownSlug(c) == \A m \in Municipalities : m.slug # c.slug

NoIdInUrl(c) == c.url.Id = NULL /\ c.url.id = NULL

\* C12: an ingest call with an unknown municipality slug, or with a URL that
\* has no Id parameter, fails with that error before a fetch is issued and
\* before a row is written: the store and the session are untouched.
C12_InputErrorsDoNoWork ==
  \A s \in Callers :
    (pc[s] # "idle" /\ (UnknownSlug(call[s]) \/ NoIdInUrl(call[s]))) =>
       /\ pc[s] = "failed"
       /\ call[s].error = (IF UnknownSlug(call[s]) THEN "MunicipalityNotFound"
                           ELSE "NoIdParameter")
       /\ call[s].fetches = 0
       /\ tx[s] = EmptyTx
       /\ db = call[s].db0

\* a call on a URL without Id, made after a meeting was stored
C12_Witness ==
  \E s \in Callers :
    /\ pc[s] = "failed"
    /\ ~UnknownSlug(call[s])
    /\ NoIdInUrl(call[s])
    /\ call[s].error = "NoIdParameter"
    /\ db.meetings # {}

\* each session has made one call, and the two calls were given
\* different meetings
OneCallEach ==
  /\ runs = 2
  /\ \A s \in Sessions : call[s].url # NullRow
  /\ \A s, o \in Sessions : s # o => call[s].external_id # call[o].external_id

\* C13: concurrent ingestion of different meetings is safe. When two
\* sessions each make one call, for different external identifiers,
\* neither call fails because of the other: no call fails with the
\* violation of Tag.name's unique constraint.
C13_ConcurrentDifferentMeetingsSucceed ==
  OneCallEach =>
    \A s \in Sessions : pc[s] = "failed" => call[s].error # UniqueTagName

\* no two rows of the store d share a unique key
KeysUnique(d) ==
  /\ \A m, n \in d.meetings : m.external_id = n.external_id => m = n
  /\ \A i, j \in d.items :
       (i.meeting_id = j.meeting_id /\ i.item_number = j.item_number) => i = j
  /\ \A g, h \in d.tags : g.name = h.name => g = h

\* C14: key uniqueness in every reachable state. Whatever step the calls
\* of the two sessions take (one after the other or interleaved, for the
\* same or different URLs, succeeding or failing), the committed store
\* after it holds no two meetings with one external identifier, no two
\* items with one (meeting, item_number) and no two tags with one name;
\* and every meeting committed before the step is still there with the
\* same external identifier.
C14_KeyUniqueness ==
  [][/\ KeysUnique(db')
     /\ \A m \in db.meetings :
          \E n \in db'.meetings : n.id = m.id /\ n.external_id = m.external_id]_vars

\* two overlapping calls for one URL: the second one's INSERT of the
\* meeting waited and failed on the unique external identifier, and the
\* store holds the meeting the first one committed, with its items
C14_Witness ==
  \E s \in Sessions :
    /\ pc[s] = "failed"
    /\ call[s].error = UniqueExternalId
    /\ \E m \in db.meetings :
         /\ m.external_id = call[s].external_id
         /\ \E i \in db.items : i.meeting_id = m.id

\* C15: no orphaned items after reconciliation. After a successful
\* ingest, the item numbers stored for the meeting are exactly the item
\* numbers of the document just ingested.
C15_NoOrphanedItems ==
  \A s \in Callers :
    pc[s] = "done" =>
      {i.item_number : i \in {j \in db.items : j.meeting_id = call[s].meeting_id}}
        = {call[s].raw_items[k].item_number : k \in 1..Len(call[s].raw_items)}

\* the text of an item number before its first "."
LeadingComponent(x) ==
  LET dots == {i \in 1..Len(x) : x[i] = "."}
  IN  IF dots = {} THEN x ELSE SubSeq(x, 1, MinOf(dots) - 1)

\* a non-empty run of decimal digits
PlainInteger(t) == t # <<>> /\ \A i \in 1..Len(t) : IsDigit(t[i])

\* no integer in any reading: empty, or holding a character that is no
\* digit, sign, space or underscore
NoInteger(t) ==
  t = <<>> \/ \E i \in 1..Len(t) : ~IsDigit(t[i]) /\ t[i] \notin {"+", "-", " ", "_"}

\* C16: section mapping. _infer_section returns the table's entry for a
\* leading integer 1..10 ("6.1" gives "consent"), "other" for any other
\* leading integer ("99.9"), and "other" for an empty or non-integer
\* leading component; it always returns.
C16_SectionMapping ==
  (pOut.done /\ pIn.fn = "_infer_section") =>
    LET lead == LeadingComponent(pIn.arg)
    IN  /\ pOut.value \in Range(SECTION_MAP) \cup {"other"}
        /\ PlainInteger(lead) =>
             pOut.value = (IF DecimalValue(lead) \in 1..10
                           THEN SECTION_MAP[DecimalValue(lead)] ELSE "other")
        /\ NoInteger(lead) => pOut.value = "other"
        /\ pIn.arg = <<"6", ".", "1">> => pOut.value = "consent"
        /\ pIn.arg = <<"9", "9", ".", "9">> => pOut.value = "other"
        /\ pIn.arg = <<>> => pOut.value = "other"

\* _infer_section has mapped "6.1" to "consent"
C16_Witness ==
  /\ pOut.done
  /\ pIn.fn = "_infer_section"
  /\ pIn.arg = <<"6", ".", "1">>
  /\ pOut.value = "consent"

\* a counter element of a closed-session item: it carries the closed
\* marker class in place of the open one
ClosedCounter(el) == "ClosedAgendaItemCounter" \in el.classes

\* the positions of a document's open counters that have a number and a
\* title
OpenItemPositions(soup) ==
  {i \in 1..Len(soup) :
     /\ ~ClosedCounter(soup[i])
     /\ RStripChar(Strip(soup[i].counter), ".") # <<>>
     /\ soup[i].has_item_div
     /\ ItemTitle(soup[i]) # <<>>}

\* C17: closed-session exclusion. Every item _parse_agenda_items returns
\* comes from an open counter of the document, the items come in the
\* order of their counters, and every open counter with a number and a
\* title gives one item; no item comes from a closed-session container,
\* however many there are.
C17_ClosedSessionExclusion ==
  (pOut.done /\ pIn.fn = "_parse_agenda_items") =>
    LET soup  == pIn.arg
        items == pOut.value
    IN  /\ Len(items) = Cardinality(OpenItemPositions(soup))
        /\ \E f \in [1..Len(items) -> OpenItemPositions(soup)] :
             /\ \A k, j \in 1..Len(items) : k < j => f[k] < f[j]
             /\ \A k \in 1..Len(items) :
                  /\ items[k].item_number = RStripChar(Strip(soup[f[k]].counter), ".")
                  /\ items[k].title = ItemTitle(soup[f[k]])

\* a document with a closed-session container between two open ones has
\* been parsed: two items, in document order
C17_Witness ==
  /\ pOut.done
  /\ pIn.fn = "_parse_agenda_items"
  /\ Len(pIn.arg) = 3
  /\ ~ClosedCounter(pIn.arg[1]) /\ ClosedCounter(pIn.arg[2]) /\ ~ClosedCounter(pIn.arg[3])
  /\ Len(pOut.value) = 2
  /\ pOut.value[1].item_number = <<"1">>
  /\ pOut.value[2].item_number = <<"6", ".", "1">>

\* the meetings stored under the call's external identifier when the
\* call began
StoredBefore(c) == {m \in c.db0.meetings : m.external_id = c.external_id}

\* the header fields and the URL of the call are those of the row
HeaderWritten(m, c) ==
  /\ m.title = c.header.title
  /\ m.type = MeetingTypes[c.header.title]
  /\ m.start_datetime = c.header.start_datetime
  /\ m.end_datetime = c.header.end_datetime
  /\ m.location = c.header.location
  /\ m.agenda_url = c.url

\* C18: meeting upsert by external identifier. A successful ingest of an
\* external identifier that was not stored adds exactly one meeting, with
\* status "scheduled"; a successful ingest of a stored one adds none and
\* leaves the stored row with its id and the header fields and URL of this
\* call. While the items are upserted the meeting already has its id, and
\* every item row written refers to it.
C18_MeetingUpsert ==
  \A s \in Callers :
    /\ pc[s] = "items" =>
         /\ call[s].meeting_id # NullInt
         /\ \E m \in View(db, tx[s]).meetings :
              m.id = call[s].meeting_id /\ m.external_id = call[s].external_id
         /\ \A i \in tx[s].items : i.meeting_id = call[s].meeting_id
    /\ pc[s] = "done" =>
         IF StoredBefore(call[s]) = {}
         THEN \E m \in db.meetings :
                /\ db.meetings = call[s].db0.meetings \cup {m}
                /\ \A old \in call[s].db0.meetings : old.id # m.id
                /\ m.external_id = call[s].external_id
                /\ m.status = "scheduled"
                /\ HeaderWritten(m, call[s])
         ELSE \E old \in StoredBefore(call[s]), m \in db.meetings :
                /\ db.meetings = (call[s].db0.meetings \ {old}) \cup {m}
                /\ m.id = old.id
                /\ m.external_id = old.external_id
                /\ m.status = old.status
                /\ HeaderWritten(m, call[s])

\* a successful ingest of a stored external identifier whose document had
\* another title than the stored meeting
C18_Witness ==
  \E s \in Callers :
    /\ pc[s] = "done"
    /\ \E old \in StoredBefore(call[s]) : old.title # call[s].header.title
    /\ \E m \in db.meetings :
         m.external_id = call[s].external_id /\ m.title = call[s].header.title

\* the sections whose items take 5 minutes
ShortSections ==
  {"opening", "closed_meeting", "closed_summary", "announcements", "adjournment"}

\* 5 and 15 minutes summed over the first n upserted items of a call
RECURSIVE MinutesBefore(_, _)
MinutesBefore(results, n) ==
  IF n = 0 THEN 0
  ELSE MinutesBefore(results, n - 1)
         + (IF results[n].section \in ShortSections THEN 5 ELSE 15)

\* C19: offset increment rule. In every call, whatever is stored, the
\* offset assigned to the k-th item is the sum over the items before it of
\* 5 for an item of a procedural section and 15 for any other; the running
\* counter holds the sum over the items upserted so far; and after a
\* successful call each item's stored offset is the one assigned to it
\* last in this call.
C19_OffsetIncrementRule ==
  \A s \in Callers :
    LET results == call[s].results
    IN  /\ \A k \in 1..Len(results) :
             results[k].offset = MinutesBefore(results, k - 1)
        /\ pc[s] = "items" => call[s].offset_minutes = MinutesBefore(results, Len(results))
        /\ pc[s] = "done" =>
             \A k \in 1..Len(results) :
               (\A j \in (k + 1)..Len(results) : results[j].item_id # results[k].item_id)
                 => \E i \in db.items :
                      /\ i.id = results[k].item_id
                      /\ i.estimated_start_offset_minutes = results[k].offset

\* a successful call over a store that already held items: an opening
\* item at offset 0, then an item at offset 5
C19_Witness ==
  \E s \in Callers :
    /\ pc[s] = "done"
    /\ call[s].db0.items # {}
    /\ Len(call[s].results) = 2
    /\ call[s].results[1].section = "opening"
    /\ call[s].results[2].offset = 5
    /\ \E i \in call[s].db0.items :
         /\ i.id = call[s].results[2].item_id
         /\ i.estimated_start_offset_minutes # 5

\* the minutes ingest adds for the first n items of a document order
RECURSIVE IncrementsBefore(_, _)
IncrementsBefore(order, n) ==
  IF n = 0 THEN 0
  ELSE IncrementsBefore(order, n - 1) + Increment(_infer_section(order[n].item_number))

\* the leading integer of an item's number
MajorOf(item) == ParseInt(LeadingComponent(item.item_number)).value

\* the offsets of the items are those one ingest run assigns for a
\* document that lists them by ascending leading integer
IngestAssigned(items) ==
  \E order \in [1..Cardinality(items) -> items] :
    /\ \A k, j \in DOMAIN order : k < j => MajorOf(order[k]) < MajorOf(order[j])
    /\ \A k \in DOMAIN order :
         order[k].estimated_start_offset_minutes = IncrementsBefore(order, k - 1)

\* the item of a set with the greatest offset, with the least one; NullRow
\* for the empty set
LatestOf(items) ==
  IF items = {} THEN NullRow
  ELSE CHOOSE x \in items : \A y \in items : MinutesOf(y) <= MinutesOf(x)

EarliestOf(items) ==
  IF items = {} THEN NullRow
  ELSE CHOOSE x \in items : \A y \in items : MinutesOf(x) <= MinutesOf(y)

\* C20: Now/Next agrees with the offsets ingest assigned. For a meeting
\* with a start time whose items have the offsets of one ingest run, and
\* now at or after the start, current is the item with the greatest
\* offset at most the elapsed time and next is the item with the least
\* offset after it, also when a leading integer has two digits.
C20_NowNextFollowsIngestOffsets ==
  (/\ eOut.done
   /\ eIn.start_datetime # NullInt
   /\ eIn.now >= eIn.start_datetime
   /\ IngestAssigned(eIn.agenda_items)) =>
     /\ eOut.current = LatestOf(Started(eIn))
     /\ eOut.next = EarliestOf(eIn.agenda_items \ Started(eIn))

\* an open counter whose number text is empty, or whose item has no title
\* element or an empty title
Discarded(el) ==
  /\ ~ClosedCounter(el)
  /\ \/ RStripChar(Strip(el.counter), ".") = <<>>
     \/ el.title = NullRow
     \/ ItemTitle(el) = <<>>

\* the document without its discarded entries
WithoutDiscarded(soup) == SelectSeq(soup, LAMBDA el : ~Discarded(el))

\* C21: item discard. When a call parses its document, the items it gets
\* are those of the document without the entries that have an empty
\* number, no title element or an empty title, and none of them has an
\* empty number or title. Every item row the call then writes is the row
\* of one of these items, and the offset it is given is the sum of the
\* increments of the items before it: a discarded entry is not stored and
\* adds nothing to the offsets.
C21_ItemDiscard ==
  [][\A s \in Callers :
       /\ (pc[s] = "fetched" /\ pc'[s] = "items") =>
            /\ call'[s].raw_items = ParsedItems[WithoutDiscarded(call[s].soup)]
            /\ call'[s].skipped = (\E k \in 1..Len(call[s].soup) : Discarded(call[s].soup[k]))
            /\ \A k \in 1..Len(call'[s].raw_items) :
                 /\ call'[s].raw_items[k].item_number # <<>>
                 /\ call'[s].raw_items[k].title # <<>>
       /\ Len(call'[s].results) = Len(call[s].results) + 1 =>
            LET k == Len(call'[s].results)
            IN  /\ call'[s].results[k].offset = IncrementsBefore(call[s].raw_items, k - 1)
                /\ \E i \in tx'[s].items :
                     /\ i.id = call'[s].results[k].item_id
                     /\ i.item_number = call[s].raw_items[k].item_number
                     /\ i.title = call[s].raw_items[k].title
                     /\ i.estimated_start_offset_minutes = call'[s].results[k].offset
       /\ \A i \in tx'[s].items :
            \E k \in 1..Len(call'[s].raw_items) :
              i.item_number = call'[s].raw_items[k].item_number
     ]_vars

\* a successful call whose document held a discarded entry and one item:
\* the item is stored at offset 0, and nothing else is
C21_Witness ==
  \E s \in Callers :
    /\ pc[s] = "done"
    /\ call[s].skipped
    /\ call[s].db0 = EmptyStore
    /\ Len(call[s].results) = 1
    /\ call[s].results[1].offset = 0
    /\ \E i \in db.items :
         /\ db.items = {i}
         /\ i.id = call[s].results[1].item_id
         /\ i.estimated_start_offset_minutes = 0

\* the text holds the word at some position
Occurs(word, text) ==
  \E i \in 1..(Len(text) - Len(word) + 1) :
    \A k \in 1..Len(word) : text[i + k - 1] = word[k]

\* the positions of the table's topics with a keyword in the lower-cased
\* text
TopicsHit(text) ==
  {i \in 1..Len(TAG_KEYWORDS) :
     \E k \in 1..Len(TAG_KEYWORDS[i].keywords) :
       Occurs(TAG_KEYWORDS[i].keywords[k], Lower(text))}

\* C22: keyword tagging. The tags _keyword_summarize_and_tag returns are
\* the topics of the table with a keyword occurring in the lower-cased
\* text, each once and in table order; with no such topic they are the
\* single tag "general", and "general" comes with no topic.
C22_KeywordTagging ==
  cOut.done =>
    LET tags == cOut.result.tags
        hit  == TopicsHit(cIn.raw_text)
    IN  IF hit = {}
        THEN tags = << <<"g","e","n","e","r","a","l">> >>
        ELSE /\ Len(tags) = Cardinality(hit)
             /\ \E f \in [1..Len(tags) -> hit] :
                  /\ \A a, b \in 1..Len(tags) : a < b => f[a] < f[b]
                  /\ \A a \in 1..Len(tags) : tags[a] = TAG_KEYWORDS[f[a]].tag
             /\ \A a \in 1..Len(tags) : tags[a] # <<"g","e","n","e","r","a","l">>

\* "Shelter" and "business" on two lines: homelessness, transit and
\* social_services, in table order
C22_Witness ==
  /\ cOut.done
  /\ cIn.raw_text = <<"S","h","e","l","t","e","r","\n","b","u","s","i","n","e","s","s">>
  /\ cOut.result.tags =
       << <<"h","o","m","e","l","e","s","s","n","e","s","s">>,
          <<"t","r","a","n","s","i","t">>,
          <<"s","o","c","i","a","l","_","s","e","r","v","i","c","e","s">> >>

\* the lines of a text ("\n" ends a line), trimmed, the empty ones left out
TrimmedLines(text) ==
  LET raw == Split(text, "\n")
  IN  SelectSeq([i \in 1..Len(raw) |-> Strip(raw[i])], LAMBDA ln : Len(ln) > 0)

\* C23: keyword summary. The summary is the first trimmed, non-empty line
\* of more than 30 characters, cut to 300; without such a line it is the
\* first non-empty line, cut to 300; without any non-empty line it is
\* empty. It never has more than 300 characters.
C23_KeywordSummary ==
  cOut.done =>
    LET summary == cOut.result.summary
        lines   == TrimmedLines(cIn.raw_text)
        long    == {i \in 1..Len(lines) : Len(lines[i]) > 30}
    IN  /\ Len(summary) <= 300
        /\ long # {} =>
             \E i \in long :
               /\ \A j \in long : i <= j
               /\ summary = SubSeq(lines[i], 1, IF Len(lines[i]) > 300 THEN 300 ELSE Len(lines[i]))
        /\ (long = {} /\ Len(lines) > 0) => summary = lines[1]
        /\ Len(lines) = 0 => summary = <<>>

\* a short line, then a line of 301 characters: the summary is the first
\* 300 characters of the second line
C23_Witness ==
  /\ cOut.done
  /\ cIn.raw_text = <<"I","t","e","m","\n">> \o Repeat(TenChars, 30) \o <<"z">>
  /\ cOut.result.summary = Repeat(TenChars, 30)

\* the 14 topic names and "general"
Vocabulary ==
  {<<"b","u","d","g","e","t">>,
   <<"t","a","x","e","s">>,
   <<"z","o","n","i","n","g">>,
   <<"h","o","u","s","i","n","g">>,
   <<"h","o","m","e","l","e","s","s","n","e","s","s">>,
   <<"t","r","a","n","s","i","t">>,
   <<"r","o","a","d","s">>,
   <<"s","a","f","e","t","y">>,
   <<"e","n","v","i","r","o","n","m","e","n","t">>,
   <<"p","a","r","k","s">>,
   <<"w","a","t","e","r">>,
   <<"g","o","v","e","r","n","a","n","c","e">>,
   <<"d","e","v","e","l","o","p","m","e","n","t">>,
   <<"s","o","c","i","a","l","_","s","e","r","v","i","c","e","s">>,
   <<"g","e","n","e","r","a","l">>}

\* C24: tag vocabulary invariant. In every state, every tag row (committed
\* or written by an open transaction) has a name of the vocabulary, every
\* association row refers to such a tag, and every tag a classification
\* returned is of the vocabulary, whatever the text and the provider's
\* answer were.
C24_TagVocabulary ==
  /\ Cardinality(Vocabulary) = 15
  /\ \A g \in AllRows("tags") : g.name \in Vocabulary
  /\ \A s \in Callers :
       /\ \A a \in View(db, tx[s]).item_tags :
            \E g \in View(db, tx[s]).tags : g.id = a.tag_id /\ g.name \in Vocabulary
       /\ \A k \in 1..Len(call[s].results) :
            \A n \in 1..Len(call[s].results[k].result.tags) :
              call[s].results[k].result.tags[n] \in Vocabulary

\* the provider's TAGS line held the token "foo" next to "parks": the call
\* succeeded and the only tag stored is parks
C24_Witness ==
  \E s \in Callers :
    /\ pc[s] = "done"
    /\ \E k \in 1..Len(call[s].results) :
         /\ call[s].results[k].outcome.kind = "text"
         /\ Occurs(<<"f","o","o">>, call[s].results[k].outcome.text)
    /\ {g.name : g \in db.tags} = {<<"p","a","r","k","s">>}
    /\ db.item_tags # {}

\* the rows of old are in new with the same surrogate id, keys and lifecycle
\* columns
LifecycleKept(old, new) ==
  /\ \A m \in old.meetings : \E n \in new.meetings :
       /\ n.id = m.id /\ n.external_id = m.external_id
       /\ n.municipality_id = m.municipality_id
       /\ n.status = m.status
  /\ \A i \in old.items : \E j \in new.items :
       /\ j.id = i.id /\ j.meeting_id = i.meeting_id
       /\ j.item_number = i.item_number
       /\ j.status = i.status
       /\ j.actual_start_datetime = i.actual_start_datetime
       /\ j.actual_end_datetime = i.actual_end_datetime

\* the rows of new that old does not hold have the creation defaults
CreatedWithDefaults(old, new) ==
  /\ \A n \in new.meetings :
       (\A m \in old.meetings : m.id # n.id) => n.status = "scheduled"
  /\ \A j \in new.items :
       (\A i \in old.items : i.id # j.id) =>
          /\ j.status = "pending"
          /\ j.actual_start_datetime = NullInt
          /\ j.actual_end_datetime = NullInt

\* C25: Re-ingestion leaves lifecycle state alone.  In the step that commits
\* an ingest call, every meeting and every item that was stored is still
\* stored under the same surrogate id and keys, with the lifecycle status it
\* had and, for an item, the actual start and end timestamps it had; the
\* rows of the meetings the call was not about are the same rows; and only
\* the rows the call created are given the statuses "scheduled" and
\* "pending".
C25_ReingestKeepsLifecycle ==
  [][\A s \in Callers :
       (pc[s] = "items" /\ pc'[s] = "done") =>
         /\ call[s].db0 = db
         /\ LifecycleKept(db, db')
         /\ CreatedWithDefaults(db, db')
         /\ \A m \in db.meetings :
              m.external_id # call[s].external_id => m \in db'.meetings
         /\ \A i \in db.items :
              i.meeting_id # call[s].meeting_id => i \in db'.items]_vars

\* a committed call found its meeting in progress and an item of it
\* completed, with both timestamps, and wrote another title to the meeting
\* and another offset to the item
C25_Witness ==
  \E s \in Callers :
    /\ pc[s] = "done"
    /\ \E m \in call[s].db0.meetings, n \in db.meetings :
         /\ m.id = n.id /\ n.id = call[s].meeting_id
         /\ m.status = "in_progress" /\ n.status = "in_progress"
         /\ m.title # n.title
    /\ \E i \in call[s].db0.items, j \in db.items :
         /\ i.id = j.id /\ j.meeting_id = call[s].meeting_id
         /\ i.status = "completed" /\ j.status = "completed"
         /\ j.actual_start_datetime = ActualStart
         /\ j.actual_end_datetime = ActualEnd
         /\ i.estimated_start_offset_minutes # j.estimated_start_offset_minutes

====
